---------------------------- MODULE Spec2Model ----------------------------
(***************************************************************************)
(* Dragon Cave Adventure (src/dragon_cave_adventure.py): the session loop, *)
(* the level loop and one frame of the simulation (Game.events,            *)
(* Game.update and the update of every sprite).                            *)
(*                                                                         *)
(* Numbers.  A pygame Rect holds integers (pixels).  A Vector2 holds       *)
(* floats; here a Vector2 component is an integer count of 1/Q pixel, and  *)
(* a product or quotient of floats is truncated to that grid.  A float     *)
(* handed to a Rect attribute is truncated toward zero, as pygame does;    *)
(* Python's round() rounds halves to the even integer.                     *)
(*                                                                         *)
(* Time.  pygame.time.get_ticks() is read as `now`, in milliseconds since  *)
(* the level was built (every timer of a level is initialised to the       *)
(* clock in Game.new, and the code only looks at differences).  The clock  *)
(* advances once per frame, in Game.run's clock.tick.                      *)
(***************************************************************************)
EXTENDS Integers, Naturals, Sequences, FiniteSets, TLC

---------------------------------------------------------------------------
(* Program constants (lines 23-75).                                        *)
SCREEN_WIDTH == 800
SCREEN_HEIGHT == 600
FPS == 60
PLAYER_JUMP_POWER == 15
DRAGON_WAKE_RANGE == 150
DRAGON_FIRE_RATE == 120
DRAGON_DISTRACTION_TIME == 180
FIREBALL_SPEED == 5
LAND_SOUND_RADIUS == 100
GROUND_LEVEL == SCREEN_HEIGHT - 40
SCROLL_THRESH == SCREEN_WIDTH \div 3
PLAYER_SIZE == <<30, 40>>
DRAGON_SIZE == <<60, 50>>
FIREBALL_SIZE == <<15, 15>>
TREASURE_SIZE == <<20, 20>>
BIG_TREASURE_SIZE == <<50, 50>>
OBSTACLE_SIZE == <<50, 50>>
DROPPED_ROCK_SIZE == <<15, 15>>
EXIT_SIZE == <<40, 60>>

\* The unit of a Vector2 component: 1/Q pixel.
Q == 10 * 10
\* The float constants, in 1/Q pixel (or 1/Q pixel per frame).
PLAYER_ACC == Q \div 2
PLAYER_GRAVITY == (6 * Q) \div 10
DRAGON_SPEED == (15 * Q) \div 10
DROPPED_ROCK_GRAVITY == (8 * Q) \div 10
\* PLAYER_FRICTION = -0.12, as hundredths.
PLAYER_FRICTION_PCT == 12
\* Player.update: the horizontal speed limit (7) and the drift cut (0.1).
PLAYER_MAX_VX == 7
PLAYER_DRIFT_CUT == Q \div 10
\* Player.__init__: rock_cooldown, in ms.
ROCK_COOLDOWN == 1000
\* Dragon.update: the chase stops within 5, the distraction spot within 10.
CHASE_EPS == 5
REACHED_EPS == 10
\* The ratio of pygame.sprite.collide_rect_ratio(0.8), in percent.
HIT_RATIO_PCT == 80
\* The fire and distraction intervals in ms: FRAMES * 1000 / FPS.
FireIntervalMs == (DRAGON_FIRE_RATE * 1000) \div FPS
DistractionMs == (DRAGON_DISTRACTION_TIME * 1000) \div FPS

---------------------------------------------------------------------------
(* Bounds of the exploration.                                              *)
\* Milliseconds that pass between two frames (clock.tick waits at least
\* 1000/FPS ms and may take longer).
FrameMs == 1000
\* Frames explored in one level of the corridor, of the den, of the wide
\* level, of the level with the ledge (with one rock, and with two), and of
\* the levels paced.
MaxFrames == 12
DenFrames == 19
WideFrames == 120
AirFrames == 45
HailFrames == 62
PaceFrames == 150
\* Where the player may turn back in the levels paced: centerx, in pixels.
TurnAt == 600
\* Frames of the level coasted, and those of them in which an arrow key
\* may be held.
CoastFrames == 58
PressFrames == 18
NewFrames == 2
\* Frames of the level with the two treasures next to the start.
NoiseFrames == 7
\* Frames of the level in which the dragons follow the player into the
\* scroll.
TrekFrames == 100
\* Where the player begins to drop rocks on the trek: centerx, in pixels.
DropFrom == 480
\* Frames of a level with the BigTreasure.
HoardFrames == 13
\* Frames of the level with the ledge and two dragons.
SkyFrames == 60
\* The stretch of the level, by the player's centre, over which they drop
\* rocks in that level: where it begins and how long it is.
DropOver == 240
DropSpan == 30
\* Calls of Dragon.update seen on the dragon of the lair.
FireCalls == 6
\* Frames of the level with the gap in the ground.
PitFrames == 40
\* The orders of the sprite group that are compared begin at the places 1
\* to MaxTurns + 1 of the group.
MaxTurns == 3
\* Rocks the player is seen to have in the world at one time: one, and two
\* where the player drops them while falling.
MaxRocks == 1
HailRocks == 2
\* Dragons selected on the start screen (the program allows up to 5).
MaxSelect == 2

---------------------------------------------------------------------------
(* Arithmetic.                                                             *)
Abs(a) == IF a < 0 THEN -a ELSE a
Sign(a) == IF a > 0 THEN 1 ELSE IF a < 0 THEN -1 ELSE 0
Min(a, b) == IF a < b THEN a ELSE b
Max(a, b) == IF a > b THEN a ELSE b
\* Division truncating toward zero (C's and int()'s).
TDiv(a, b) == Sign(a) * Sign(b) * (Abs(a) \div Abs(b))
\* int(v) of a float v held in 1/Q pixel.
Trunc(v) == TDiv(v, Q)
\* Python's round(v): to the nearest integer, halves to the even one.
Round(v) ==
  LET f == v \div Q
      r == v % Q
  IN  IF 2 * r < Q THEN f
      ELSE IF 2 * r > Q THEN f + 1
      ELSE IF f % 2 = 0 THEN f ELSE f + 1

\* The integer square root, by bisection on [lo, hi].
RECURSIVE SqrtBetween(_, _, _)
SqrtBetween(n, lo, hi) ==
  IF lo >= hi THEN lo
  ELSE LET mid == (lo + hi + 1) \div 2
       IN  IF mid * mid <= n THEN SqrtBetween(n, mid, hi)
           ELSE SqrtBetween(n, lo, mid - 1)
ISqrt(n) == SqrtBetween(n, 0, 46340)

---------------------------------------------------------------------------
(* pygame.math.Vector2, components in 1/Q pixel.                           *)
Vec(x, y) == [x |-> x, y |-> y]
\* A Vector2 built from integers (pixels).
VecPx(x, y) == Vec(x * Q, y * Q)
VSub(a, b) == Vec(a.x - b.x, a.y - b.y)
VAdd(a, b) == Vec(a.x + b.x, a.y + b.y)
\* Halve both components while either is too long to square: the direction
\* is kept, and the squares below stay in range.
RECURSIVE Shrink(_)
Shrink(v) ==
  IF Abs(v.x) > 20000 \/ Abs(v.y) > 20000
  THEN Shrink(Vec(TDiv(v.x, 2), TDiv(v.y, 2)))
  ELSE v
\* Vector2.length() > 0.
NonZero(v) == v.x # 0 \/ v.y # 0
\* v.normalize() * speed, speed in 1/Q pixel.
Toward(v, speed) ==
  LET s == Shrink(v)
      len == ISqrt(s.x * s.x + s.y * s.y)
  IN  Vec(TDiv(s.x * speed, len), TDiv(s.y * speed, len))
\* a.distance_to(b) < r and a.distance_to(b) > r, r in pixels.
DistLess(a, b, r) ==
  LET d == VSub(a, b)
  IN  /\ Abs(d.x) < r * Q
      /\ Abs(d.y) < r * Q
      /\ d.x * d.x + d.y * d.y < (r * Q) * (r * Q)
DistGreater(a, b, r) ==
  LET d == VSub(a, b)
  IN  \/ Abs(d.x) > r * Q
      \/ Abs(d.y) > r * Q
      \/ d.x * d.x + d.y * d.y > (r * Q) * (r * Q)

---------------------------------------------------------------------------
(* pygame.Rect.                                                            *)
Rect(x, y, w, h) == [x |-> x, y |-> y, w |-> w, h |-> h]
CenterX(r) == r.x + r.w \div 2
CenterY(r) == r.y + r.h \div 2
Bottom(r) == r.y + r.h
Right(r) == r.x + r.w
SetCenterX(r, v) == [r EXCEPT !.x = v - r.w \div 2]
SetCenterY(r, v) == [r EXCEPT !.y = v - r.h \div 2]
SetBottom(r, v) == [r EXCEPT !.y = v - r.h]
SetRight(r, v) == [r EXCEPT !.x = v - r.w]
SetLeft(r, v) == [r EXCEPT !.x = v]
SetTop(r, v) == [r EXCEPT !.y = v]
MoveX(r, d) == [r EXCEPT !.x = r.x + d]
\* Surface(size).get_rect() with centerx and bottom assigned.
RectAt(size, cx, bottom) == SetBottom(SetCenterX(Rect(0, 0, size[1], size[2]), cx), bottom)
\* rect.center = pos, pos a Vector2 (floats are truncated).
SetCenter(r, pos) == SetCenterY(SetCenterX(r, Trunc(pos.x)), Trunc(pos.y))
\* Rect.colliderect.
CollideRect(a, b) ==
  /\ a.x < b.x + b.w
  /\ a.y < b.y + b.h
  /\ a.x + a.w > b.x
  /\ a.y + a.h > b.y
\* Rect.inflate(dx, dy).
Inflate(r, dx, dy) == Rect(r.x - TDiv(dx, 2), r.y - TDiv(dy, 2), r.w + dx, r.h + dy)
\* The rectangle collide_rect_ratio(0.8) tests: inflate(w*0.8 - w, h*0.8 - h).
Shrunk(r) ==
  Inflate(r, TDiv(r.w * HIT_RATIO_PCT, 100) - r.w, TDiv(r.h * HIT_RATIO_PCT, 100) - r.h)
CollideRatio(a, b) == CollideRect(Shrunk(a), Shrunk(b))

---------------------------------------------------------------------------
(* The state.                                                              *)
VARIABLES
  levels,                \* LEVELS, the level catalog
  pc,                    \* where the main program stands
  running, playing, state,
  total_score, current_level_index, num_selected_dragons,
  level_data,            \* the index (from 0) of the level Game.new loaded
  score, world_shift, now,
  player, dragons, fireballs, dropped_rocks, newly_landed_rocks,
  treasures,             \* the catalog indices of the Treasure sprites alive
  big_treasure_spawned,
  big_treasure_sprite,   \* TRUE while a BigTreasure is referenced and alive
  out                    \* what the last step printed or played, in order

vars == <<levels, pc, running, playing, state, total_score,
          current_level_index, num_selected_dragons, level_data, score,
          world_shift, now, player, dragons, fireballs, dropped_rocks,
          newly_landed_rocks, treasures, big_treasure_spawned,
          big_treasure_sprite, out>>

\* Python's None, for an attribute that otherwise holds one value: <<>> is
\* None and <<v>> is v.
None == <<>>
Some(v) == <<v>>

---------------------------------------------------------------------------
(* The sprites of a level.  A sprite that never moves by itself (Platform, *)
(* Obstacle, Treasure, BigTreasure, Exit) has its catalog rectangle moved  *)
(* by the scroll applied so far, which is world_shift: Game.update adds    *)
(* actual_scroll to the rect.x of every sprite but the player, and to      *)
(* world_shift.                                                            *)
Level(ld) == levels[ld + 1]
LevelWidth(ld) == Level(ld).level_width
\* Platform(x, y, w, h).
PlatformRect(p, ws) == Rect(p[1] + ws, p[2], p[3], p[4])
ObstacleRect(o, ws) == MoveX(RectAt(OBSTACLE_SIZE, o[1], o[2]), ws)
TreasureRect(t, ws) == MoveX(RectAt(TREASURE_SIZE, t[1], t[2]), ws)
ExitRect(ld, ws) == MoveX(RectAt(EXIT_SIZE, Level(ld).exit_pos[1], Level(ld).exit_pos[2]), ws)
\* BigTreasure(exit_sprite.rect.centerx, exit_sprite.rect.bottom).
BigTreasureRect(ld, ws) ==
  RectAt(BIG_TREASURE_SIZE, CenterX(ExitRect(ld, ws)), Bottom(ExitRect(ld, ws)))
\* self.obstacles, in the order of the group.
ObstacleRects(ld, ws) ==
  [i \in 1..Len(Level(ld).obstacles) |-> ObstacleRect(Level(ld).obstacles[i], ws)]
\* self.platforms: the Platform sprites, then the Obstacle sprites.
PlatformRects(ld, ws) ==
  [i \in 1..Len(Level(ld).platforms) |-> PlatformRect(Level(ld).platforms[i], ws)]
    \o ObstacleRects(ld, ws)
\* pygame.sprite.spritecollide(sprite, group, False): the hits, in order.
Hits(r, rects) == SelectSeq(rects, LAMBDA b : CollideRect(r, b))

---------------------------------------------------------------------------
(* Player (lines 552-671).                                                 *)
\* Player.__init__.
NewPlayer(t) ==
  LET r == RectAt(PLAYER_SIZE, SCREEN_WIDTH \div 4, GROUND_LEVEL - 10)
  IN  [rect |-> r,
       pos |-> VecPx(CenterX(r), CenterY(r)),
       vel |-> Vec(0, 0),
       on_ground |-> FALSE,
       last_rock_drop |-> t]

\* A jump that does not look for a platform under the player.
JumpAnywhere(p, plats) == [p EXCEPT !.vel.y = -(PLAYER_JUMP_POWER * Q)]
\* Player.jump.
Jump(p, plats) ==
  IF Hits([p.rect EXCEPT !.y = p.rect.y + 1], plats) # <<>>
  THEN [p EXCEPT !.vel.y = -(PLAYER_JUMP_POWER * Q)]
  ELSE p

\* DroppedRock.__init__(game, x, y).
NewRock(x, y) ==
  [rect |-> SetCenter(Rect(0, 0, DROPPED_ROCK_SIZE[1], DROPPED_ROCK_SIZE[2]), VecPx(x, y)),
   pos |-> VecPx(x, y),
   vel_y |-> 0,
   landed |-> FALSE,
   land_pos |-> None]

\* A cooldown that is over as soon as rock_cooldown has passed.
DropAllowedAtCooldown(p, t) == t - p.last_rock_drop >= ROCK_COOLDOWN
\* Player.drop_rock: the player, and the rocks it adds.
DropAllowed(p, t) == t - p.last_rock_drop > ROCK_COOLDOWN
DropRock(p, t) ==
  IF DropAllowed(p, t)
  THEN [p |-> [p EXCEPT !.last_rock_drop = t],
        rocks |-> <<NewRock(CenterX(p.rect), CenterY(p.rect))>>]
  ELSE [p |-> p, rocks |-> <<>>]

\* A horizontal velocity that is never limited.
PlayerVelXNoLimit(vx, left, right) ==
  LET acc0 == IF right THEN PLAYER_ACC ELSE IF left THEN -PLAYER_ACC ELSE 0
      acc == IF ~left /\ ~right THEN acc0 + -TDiv(vx * PLAYER_FRICTION_PCT, 100) ELSE acc0
      v1 == vx + acc
  IN  IF Abs(v1) < PLAYER_DRIFT_CUT THEN 0 ELSE v1

\* A horizontal velocity that drifts: the small ones are not set to 0.
PlayerVelXDrifts(vx, left, right) ==
  LET acc0 == IF right THEN PLAYER_ACC ELSE IF left THEN -PLAYER_ACC ELSE 0
      acc == IF ~left /\ ~right THEN acc0 + -TDiv(vx * PLAYER_FRICTION_PCT, 100) ELSE acc0
      v1 == vx + acc
  IN  IF Abs(v1) > PLAYER_MAX_VX * Q THEN PLAYER_MAX_VX * Q * Sign(v1) ELSE v1

\* Player.update, lines 593-617: the new horizontal velocity.
PlayerVelX(vx, left, right) ==
  LET acc0 == IF right THEN PLAYER_ACC ELSE IF left THEN -PLAYER_ACC ELSE 0
      acc == IF ~left /\ ~right THEN acc0 + -TDiv(vx * PLAYER_FRICTION_PCT, 100) ELSE acc0
      v1 == vx + acc
      v2 == IF Abs(v1) > PLAYER_MAX_VX * Q THEN PLAYER_MAX_VX * Q * Sign(v1) ELSE v1
  IN  IF Abs(v2) < PLAYER_DRIFT_CUT THEN 0 ELSE v2

\* Player.update, lines 620-633: the move along x and its collisions.
PlayerMoveX(p, plats) ==
  LET posx == p.pos.x + p.vel.x
      r1 == SetCenterX(p.rect, Round(posx))
      hits == Hits(r1, plats)
      r2 == IF hits = <<>> THEN r1
            ELSE IF p.vel.x > 0 THEN SetRight(r1, hits[1].x)
            ELSE IF p.vel.x < 0 THEN SetLeft(r1, Right(hits[1]))
            ELSE r1
  IN  IF hits = <<>>
      THEN [p EXCEPT !.rect = r1, !.pos.x = posx]
      ELSE [p EXCEPT !.rect = r2, !.pos.x = CenterX(r2) * Q, !.vel.x = 0]

\* Player.update, lines 635-650: the move along y and its collisions.
PlayerMoveY(p, plats) ==
  LET posy == p.pos.y + p.vel.y
      r1 == SetBottom(p.rect, Round(posy))
      hits == Hits(r1, plats)
      r2 == IF hits = <<>> THEN r1
            ELSE IF p.vel.y > 0 THEN SetBottom(r1, hits[1].y)
            ELSE IF p.vel.y < 0 THEN SetTop(r1, Bottom(hits[1]))
            ELSE r1
  IN  IF hits = <<>>
      THEN [p EXCEPT !.rect = r1, !.pos.y = posy, !.on_ground = FALSE]
      ELSE [p EXCEPT !.rect = r2, !.pos.y = Bottom(r2) * Q,
                     !.on_ground = (p.vel.y > 0),
                     !.vel.y = IF p.vel.y # 0 THEN 0 ELSE p.vel.y]

\* Bounds without the floor under the ground.
PlayerBoundsNoFloor(p, width) ==
  LET p1 == IF p.rect.x < 0
            THEN [p EXCEPT !.rect = SetLeft(p.rect, 0), !.pos.x = (p.rect.w \div 2) * Q,
                           !.vel.x = 0]
            ELSE p
      p2 == IF Right(p1.rect) > width
            THEN [p1 EXCEPT !.rect = SetRight(p1.rect, width),
                            !.pos.x = CenterX(SetRight(p1.rect, width)) * Q, !.vel.x = 0]
            ELSE p1
  IN  [p2 EXCEPT !.pos = VecPx(CenterX(p2.rect), Bottom(p2.rect))]
\* Player.update, lines 653-671: the level bounds, the floor, the final sync.
PlayerBounds(p, width) ==
  LET p1 == IF p.rect.x < 0
            THEN [p EXCEPT !.rect = SetLeft(p.rect, 0), !.pos.x = (p.rect.w \div 2) * Q,
                           !.vel.x = 0]
            ELSE p
      p2 == IF Right(p1.rect) > width
            THEN [p1 EXCEPT !.rect = SetRight(p1.rect, width),
                            !.pos.x = CenterX(SetRight(p1.rect, width)) * Q, !.vel.x = 0]
            ELSE p1
      p3 == IF Bottom(p2.rect) > GROUND_LEVEL + 50
            THEN [p2 EXCEPT !.rect = SetBottom(p2.rect, GROUND_LEVEL),
                            !.pos.y = GROUND_LEVEL * Q, !.on_ground = TRUE, !.vel.y = 0]
            ELSE p2
  IN  [p3 EXCEPT !.pos = VecPx(CenterX(p3.rect), Bottom(p3.rect))]

\* Player.update: left and right are pygame.key.get_pressed() for the arrows.
PlayerUpdate(p, left, right, plats, width) ==
  LET p1 == [p EXCEPT !.vel = Vec(PlayerVelX(p.vel.x, left, right), p.vel.y + PLAYER_GRAVITY)]
  IN  PlayerBounds(PlayerMoveY(PlayerMoveX(p1, plats), plats), width)

---------------------------------------------------------------------------
(* Dragon (lines 674-772).  `out` lists what the call printed, played or   *)
(* built, in order; i is the place of the dragon in self.dragons.          *)
\* Dragon.__init__(game, x, y).
NewDragon(x, y, t) ==
  LET r == RectAt(DRAGON_SIZE, x, y)
  IN  [rect |-> r,
       pos |-> VecPx(CenterX(r), CenterY(r)),
       state |-> "sleeping",
       last_fireball |-> t,
       distraction_target |-> None,
       distraction_timer |-> 0]

\* A faulty wake_up that stops after its first assignment.
WakeUpStuck(d, i, t) ==
  IF d.state = "sleeping"
  THEN [d |-> [d EXCEPT !.state = "waking"], out |-> << <<"dragon_roar_sound", i>> >>]
  ELSE [d |-> d, out |-> <<>>]

\* A wake_up that does not look at the state of the dragon.
WakeUpAnyState(d, i, t) ==
  [d |-> [d EXCEPT !.state = "chasing", !.last_fireball = t],
   out |-> << <<"dragon_roar_sound", i>> >>]

\* Dragon.wake_up.
WakeUp(d, i, t) ==
  IF d.state = "sleeping"
  THEN [d |-> [d EXCEPT !.state = "chasing", !.last_fireball = t],
        out |-> << <<"dragon_roar_sound", i>> >>]
  ELSE [d |-> d, out |-> <<>>]

\* A get_distracted that does not look at the state of the dragon.
GetDistractedAnyState(d, i, target_pos, t) ==
  [d |-> [d EXCEPT !.state = "distracted",
                   !.distraction_target = Some(target_pos),
                   !.distraction_timer = t],
   out |-> << <<"Dragon distracted!", i>> >>]
\* Dragon.get_distracted(target_pos).
GetDistracted(d, i, target_pos, t) ==
  IF d.state = "chasing" \/ d.state = "distracted"
  THEN [d |-> [d EXCEPT !.state = "distracted",
                        !.distraction_target = Some(target_pos),
                        !.distraction_timer = t],
        out |-> << <<"Dragon distracted!", i>> >>]
  ELSE [d |-> d, out |-> <<>>]

\* Fireball.__init__(game, x, y, direction), direction a unit vector given
\* by the vector it normalizes.
NewFireball(x, y, toward) ==
  [rect |-> SetCenter(Rect(0, 0, FIREBALL_SIZE[1], FIREBALL_SIZE[2]), VecPx(x, y)),
   pos |-> VecPx(x, y),
   vel |-> Toward(toward, FIREBALL_SPEED * Q)]

\* Lines 747-750 and 756-760: one step toward the target.
StepToward(d, target) ==
  LET pos == VAdd(d.pos, Toward(VSub(target, d.pos), DRAGON_SPEED))
  IN  [d EXCEPT !.pos = pos, !.rect = SetCenter(d.rect, pos)]

\* A faulty sleeping branch that listens within the radius of a landing
\* rock instead of the wake range.
UpdateSleepingShortRange(d, i, ppos, t) ==
  IF DistLess(d.pos, ppos, LAND_SOUND_RADIUS)
  THEN LET w == WakeUp(d, i, t)
       IN  [d |-> w.d, fireballs |-> <<>>,
            out |-> << <<"Dragon senses player!", i>> >> \o w.out]
  ELSE [d |-> d, fireballs |-> <<>>, out |-> <<>>]

\* Dragon.update, the branch of a sleeping dragon (lines 717-724).
UpdateSleeping(d, i, ppos, t) ==
  IF DistLess(d.pos, ppos, DRAGON_WAKE_RANGE)
  THEN LET w == WakeUp(d, i, t)
       IN  [d |-> w.d, fireballs |-> <<>>,
            out |-> << <<"Dragon senses player!", i>> >> \o w.out]
  ELSE [d |-> d, fireballs |-> <<>>, out |-> <<>>]

\* A distracted branch that keeps the target when the distraction is over.
UpdateDistractedKeepsTarget(d, i, ppos, t) ==
  IF t - d.distraction_timer > DistractionMs
  THEN [d |-> [d EXCEPT !.state = "chasing"],
        fireballs |-> <<>>,
        out |-> << <<"Dragon no longer distracted.", i>> >>]
  ELSE IF DistLess(d.pos, d.distraction_target[1], REACHED_EPS)
  THEN [d |-> d, fireballs |-> <<>>,
        out |-> << <<"Dragon reached distraction spot.", i>> >>]
  ELSE [d |-> StepToward(d, d.distraction_target[1]), fireballs |-> <<>>, out |-> <<>>]

\* A distracted branch that lets the dragon doze off when the distraction
\* is over.
UpdateDistractedDozesOff(d, i, ppos, t) ==
  IF t - d.distraction_timer > DistractionMs
  THEN [d |-> [d EXCEPT !.state = "sleeping", !.distraction_target = None],
        fireballs |-> <<>>,
        out |-> << <<"Dragon no longer distracted.", i>> >>]
  ELSE IF DistLess(d.pos, d.distraction_target[1], REACHED_EPS)
  THEN [d |-> d, fireballs |-> <<>>,
        out |-> << <<"Dragon reached distraction spot.", i>> >>]
  ELSE [d |-> StepToward(d, d.distraction_target[1]), fireballs |-> <<>>, out |-> <<>>]

\* A distracted branch that gives up as soon as the duration is reached.
UpdateDistractedBriefly(d, i, ppos, t) ==
  IF t - d.distraction_timer >= DistractionMs
  THEN [d |-> [d EXCEPT !.state = "chasing", !.distraction_target = None],
        fireballs |-> <<>>,
        out |-> << <<"Dragon no longer distracted.", i>> >>]
  ELSE IF DistLess(d.pos, d.distraction_target[1], REACHED_EPS)
  THEN [d |-> d, fireballs |-> <<>>,
        out |-> << <<"Dragon reached distraction spot.", i>> >>]
  ELSE [d |-> StepToward(d, d.distraction_target[1]), fireballs |-> <<>>, out |-> <<>>]

\* Dragon.update, the branch of a distracted dragon (lines 732-750).
UpdateDistracted(d, i, ppos, t) ==
  IF t - d.distraction_timer > DistractionMs
  THEN [d |-> [d EXCEPT !.state = "chasing", !.distraction_target = None],
        fireballs |-> <<>>,
        out |-> << <<"Dragon no longer distracted.", i>> >>]
  ELSE IF DistLess(d.pos, d.distraction_target[1], REACHED_EPS)
  THEN [d |-> d, fireballs |-> <<>>,
        out |-> << <<"Dragon reached distraction spot.", i>> >>]
  ELSE [d |-> StepToward(d, d.distraction_target[1]), fireballs |-> <<>>, out |-> <<>>]

\* A chasing branch that fires as soon as the interval is reached.
UpdateChasingEager(d, i, ppos, t) ==
  LET d1 == IF DistGreater(d.pos, ppos, CHASE_EPS) THEN StepToward(d, ppos) ELSE d
      fire_direction == VSub(ppos, d1.pos)
  IN  IF t - d1.last_fireball >= FireIntervalMs
      THEN IF NonZero(fire_direction)
           THEN [d |-> [d1 EXCEPT !.last_fireball = t],
                 fireballs |-> <<NewFireball(CenterX(d1.rect), CenterY(d1.rect), fire_direction)>>,
                 out |-> << <<"Fireball", i>> >>]
           ELSE [d |-> [d1 EXCEPT !.last_fireball = t], fireballs |-> <<>>, out |-> <<>>]
      ELSE [d |-> d1, fireballs |-> <<>>, out |-> <<>>]

\* Dragon.update, the branch of a chasing dragon (lines 752-772).
UpdateChasing(d, i, ppos, t) ==
  LET d1 == IF DistGreater(d.pos, ppos, CHASE_EPS) THEN StepToward(d, ppos) ELSE d
      fire_direction == VSub(ppos, d1.pos)
  IN  IF t - d1.last_fireball > FireIntervalMs
      THEN IF NonZero(fire_direction)
           THEN [d |-> [d1 EXCEPT !.last_fireball = t],
                 fireballs |-> <<NewFireball(CenterX(d1.rect), CenterY(d1.rect), fire_direction)>>,
                 out |-> << <<"Fireball", i>> >>]
           ELSE [d |-> [d1 EXCEPT !.last_fireball = t], fireballs |-> <<>>, out |-> <<>>]
      ELSE [d |-> d1, fireballs |-> <<>>, out |-> <<>>]

\* A Dragon.update that tests the state a second time after the branch of
\* a distracted dragon: a dragon whose distraction ends chases, and fires,
\* in the same call.
DragonUpdateFallsThrough(d, i, ppos, t) ==
  IF d.state = "sleeping" THEN UpdateSleeping(d, i, ppos, t)
  ELSE IF d.state = "distracted"
  THEN LET u == UpdateDistracted(d, i, ppos, t)
           c == UpdateChasing(u.d, i, ppos, t)
       IN  IF u.d.state = "chasing"
           THEN [d |-> c.d, fireballs |-> c.fireballs, out |-> u.out \o c.out]
           ELSE u
  ELSE IF d.state = "chasing" THEN UpdateChasing(d, i, ppos, t)
  ELSE [d |-> d, fireballs |-> <<>>, out |-> <<>>]

\* Dragon.update: ppos is self.game.player.pos, t the clock.
DragonUpdate(d, i, ppos, t) ==
  IF d.state = "sleeping" THEN UpdateSleeping(d, i, ppos, t)
  ELSE IF d.state = "waking"
  THEN [d |-> [d EXCEPT !.state = "chasing"], fireballs |-> <<>>, out |-> <<>>]
  ELSE IF d.state = "distracted" THEN UpdateDistracted(d, i, ppos, t)
  ELSE IF d.state = "chasing" THEN UpdateChasing(d, i, ppos, t)
  ELSE [d |-> d, fireballs |-> <<>>, out |-> <<>>]

---------------------------------------------------------------------------
(* Fireball.update (lines 791-799) and DroppedRock.update (lines 871-898). *)
\* The fireball after its move.
FireballMoved(f) ==
  LET pos == VAdd(f.pos, f.vel)
  IN  [f EXCEPT !.pos = pos, !.rect = SetCenter(f.rect, pos)]
\* Whether the moved fireball is still in its groups.
FireballAlive(f, world_rect, obstacles) ==
  /\ CollideRect(world_rect, f.rect)
  /\ Hits(f.rect, obstacles) = <<>>

\* A DroppedRock.update that does not look at the landed flag.
RockUpdateLandsAgain(r, plats) ==
  LET vel_y == r.vel_y + DROPPED_ROCK_GRAVITY
      posy == r.pos.y + vel_y
      r1 == SetCenterY(r.rect, Trunc(posy))
      hits == Hits(r1, plats)
      ground == Bottom(r1) >= GROUND_LEVEL
      landed_this_frame == ground \/ hits # <<>>
      r2 == IF ground THEN SetBottom(r1, GROUND_LEVEL)
            ELSE IF hits # <<>> THEN SetBottom(r1, hits[1].y)
            ELSE r1
  IN  [r |-> [rect |-> r2,
              pos |-> Vec(r.pos.x, posy),
              vel_y |-> IF landed_this_frame THEN 0 ELSE vel_y,
              landed |-> landed_this_frame,
              land_pos |-> IF landed_this_frame
                           THEN Some(VecPx(CenterX(r2), Bottom(r2)))
                           ELSE r.land_pos],
       landed_now |-> landed_this_frame,
       alive |-> ~(r2.y > SCREEN_HEIGHT)]
\* A DroppedRock.update that lands the rock on platforms only.
RockUpdatePlatformsOnly(r, plats) ==
  IF r.landed THEN [r |-> r, landed_now |-> FALSE, alive |-> TRUE]
  ELSE
    LET vel_y == r.vel_y + DROPPED_ROCK_GRAVITY
        posy == r.pos.y + vel_y
        r1 == SetCenterY(r.rect, Trunc(posy))
        hits == Hits(r1, plats)
        landed_this_frame == hits # <<>>
        r2 == IF hits # <<>> THEN SetBottom(r1, hits[1].y) ELSE r1
    IN  [r |-> [rect |-> r2,
                pos |-> Vec(r.pos.x, posy),
                vel_y |-> IF landed_this_frame THEN 0 ELSE vel_y,
                landed |-> landed_this_frame,
                land_pos |-> IF landed_this_frame
                             THEN Some(VecPx(CenterX(r2), Bottom(r2)))
                             ELSE r.land_pos],
         landed_now |-> landed_this_frame,
         alive |-> ~(r2.y > SCREEN_HEIGHT)]
\* The rock after DroppedRock.update; landed_now says that it appended
\* itself to newly_landed_rocks.
RockUpdate(r, plats) ==
  IF r.landed THEN [r |-> r, landed_now |-> FALSE, alive |-> TRUE]
  ELSE
    LET vel_y == r.vel_y + DROPPED_ROCK_GRAVITY
        posy == r.pos.y + vel_y
        r1 == SetCenterY(r.rect, Trunc(posy))
        hits == Hits(r1, plats)
        ground == Bottom(r1) >= GROUND_LEVEL
        landed_this_frame == ground \/ hits # <<>>
        r2 == IF ground THEN SetBottom(r1, GROUND_LEVEL)
              ELSE IF hits # <<>> THEN SetBottom(r1, hits[1].y)
              ELSE r1
    IN  [r |-> [rect |-> r2,
                pos |-> Vec(r.pos.x, posy),
                vel_y |-> IF landed_this_frame THEN 0 ELSE vel_y,
                landed |-> landed_this_frame,
                land_pos |-> IF landed_this_frame
                             THEN Some(VecPx(CenterX(r2), Bottom(r2)))
                             ELSE r.land_pos],
         landed_now |-> landed_this_frame,
         alive |-> ~(r2.y > SCREEN_HEIGHT)]

---------------------------------------------------------------------------
(* Game.new (lines 958-1087): where the dragons are put.                   *)
\* A faulty filter that keeps every catalog position.
PredefinedPositionsUnfiltered(ld) == Level(ld).dragons_start
\* The catalog positions kept: pos[0] >= level_width * 0.25.
PredefinedPositions(ld) ==
  SelectSeq(Level(ld).dragons_start, LAMBDA pos : 4 * pos[1] >= LevelWidth(ld))
\* A faulty choice of platforms that takes every Platform of the level.
CandidatePlatformSpawnPointsAnywhere(ld) ==
  LET plats == Level(ld).platforms
  IN  [i \in 1..Len(plats) |-> <<CenterX(PlatformRect(plats[i], 0)), plats[i][2]>>]
\* (rect.centerx, rect.top) of every Platform centred at or past 25%.
CandidatePlatformSpawnPoints(ld) ==
  LET plats == SelectSeq(Level(ld).platforms,
                         LAMBDA p : 4 * CenterX(PlatformRect(p, 0)) >= LevelWidth(ld))
  IN  [i \in 1..Len(plats) |-> <<CenterX(PlatformRect(plats[i], 0)), plats[i][2]>>]
\* The range of random.randint in the ground fallback, or the one x used
\* when the range is empty.
FallbackXs(ld) ==
  LET start == Max(50, LevelWidth(ld) \div 4)
      stop == LevelWidth(ld) - 50
  IN  IF start >= stop THEN {LevelWidth(ld) \div 2} ELSE start..stop
\* spawned_dragon_positions; rand gives the x of each fallback dragon.
SpawnedDragonPositions(ld, num_to_spawn, rand) ==
  LET pre == PredefinedPositions(ld)
      first == SubSeq(pre, 1, Min(num_to_spawn, Len(pre)))
      num_still_to_spawn == num_to_spawn - Len(first)
      cands == CandidatePlatformSpawnPoints(ld)
  IN  first \o
      [i \in 1..num_still_to_spawn |->
         IF cands = <<>> THEN <<rand[i], GROUND_LEVEL>>
         ELSE cands[((i - 1) % Len(cands)) + 1]]
\* How many random numbers Game.new draws.
RandomDraws(ld, num_to_spawn) ==
  IF CandidatePlatformSpawnPoints(ld) = <<>>
  THEN Max(0, num_to_spawn - Len(PredefinedPositions(ld)))
  ELSE 0

---------------------------------------------------------------------------
(* Game.events (lines 1268-1295), for one event of the queue.  g is the    *)
(* Game object with its sprites.                                           *)
Events(g, ev, plats, t) ==
  IF ev = "QUIT" THEN [g EXCEPT !.playing = FALSE, !.running = FALSE]
  ELSE IF ev = "K_ESCAPE" THEN [g EXCEPT !.playing = FALSE, !.running = FALSE]
  ELSE IF ev = "K_UP" /\ g.state = "playing"
  THEN [g EXCEPT !.player = Jump(g.player, plats)]
  ELSE IF ev = "K_SPACE" /\ g.state = "playing"
  THEN [g EXCEPT !.player = DropRock(g.player, t).p,
                 !.dropped_rocks = g.dropped_rocks \o DropRock(g.player, t).rocks]
  ELSE g

---------------------------------------------------------------------------
(* Game.update (lines 1098-1265), rule by rule.                            *)
\* self.all_sprites.update(): the player, the dragons, then the fireballs
\* and rocks that were in the group when the update began.
UpdateSprites(g, left, right, ld, t) ==
  LET plats == PlatformRects(ld, g.world_shift)
      p == PlayerUpdate(g.player, left, right, plats, LevelWidth(ld))
      du == [i \in 1..Len(g.dragons) |-> DragonUpdate(g.dragons[i], i, p.pos, t)]
      RECURSIVE Fired(_)
      Fired(i) == IF i = 0 THEN <<>> ELSE Fired(i - 1) \o du[i].fireballs
      RECURSIVE Said(_)
      Said(i) == IF i = 0 THEN <<>> ELSE Said(i - 1) \o du[i].out
      moved == [i \in 1..Len(g.fireballs) |-> FireballMoved(g.fireballs[i])]
      kept == SelectSeq(moved, LAMBDA f :
                FireballAlive(f, Rect(0, 0, LevelWidth(ld), SCREEN_HEIGHT),
                              ObstacleRects(ld, g.world_shift)))
      ru == [i \in 1..Len(g.dropped_rocks) |-> RockUpdate(g.dropped_rocks[i], plats)]
      RECURSIVE Landed(_)
      Landed(i) == IF i = 0 THEN <<>>
                   ELSE Landed(i - 1) \o (IF ru[i].landed_now THEN <<i>> ELSE <<>>)
  IN  [g EXCEPT !.player = p,
                !.dragons = [i \in 1..Len(g.dragons) |-> du[i].d],
                !.fireballs = kept \o Fired(Len(g.dragons)),
                !.dropped_rocks = [i \in 1..Len(g.dropped_rocks) |-> ru[i].r],
                !.newly_landed_rocks = g.newly_landed_rocks \o Landed(Len(g.dropped_rocks)),
                !.out = g.out \o Said(Len(g.dragons))]

\* Lines 1102-1150: the scroll decided by the player's place on the screen.
ScrollWanted(p, ws) ==
  LET player_screen_x == CenterX(p.rect) + ws
  IN  IF player_screen_x > SCREEN_WIDTH - SCROLL_THRESH /\ p.vel.x > 0
      THEN -Min(Abs(p.vel.x) \div Q, player_screen_x - (SCREEN_WIDTH - SCROLL_THRESH))
      ELSE IF player_screen_x < SCROLL_THRESH /\ p.vel.x < 0
      THEN Min(Abs(p.vel.x) \div Q, SCROLL_THRESH - player_screen_x)
      ELSE 0
\* A clamp that forgets the right end of the level.
NewWorldShiftNoRightEnd(p, ws, width) ==
  IF width <= SCREEN_WIDTH THEN 0
  ELSE Min(0, ws + ScrollWanted(p, ws))
NewWorldShift(p, ws, width) ==
  IF width <= SCREEN_WIDTH THEN 0
  ELSE Max(-(width - SCREEN_WIDTH), Min(0, ws + ScrollWanted(p, ws)))
\* sprite.rect.x += actual_scroll; sprite.pos.x += actual_scroll.
Shifted(sp, d) == [sp EXCEPT !.rect = MoveX(sp.rect, d), !.pos.x = sp.pos.x + d * Q]
\* A scroll that carries the player along with the world.
ScrollWithPlayer(g, ld) ==
  LET ws == NewWorldShift(g.player, g.world_shift, LevelWidth(ld))
      actual_scroll == ws - g.world_shift
  IN  [g EXCEPT !.world_shift = ws,
                !.player = Shifted(g.player, actual_scroll),
                !.dragons = [i \in 1..Len(g.dragons) |-> Shifted(g.dragons[i], actual_scroll)],
                !.fireballs = [i \in 1..Len(g.fireballs) |-> Shifted(g.fireballs[i], actual_scroll)],
                !.dropped_rocks = [i \in 1..Len(g.dropped_rocks) |->
                                     Shifted(g.dropped_rocks[i], actual_scroll)]]
\* A scroll that leaves the dragons where they are.
ScrollPastDragons(g, ld) ==
  LET ws == NewWorldShift(g.player, g.world_shift, LevelWidth(ld))
      actual_scroll == ws - g.world_shift
  IN  [g EXCEPT !.world_shift = ws,
                !.fireballs = [i \in 1..Len(g.fireballs) |-> Shifted(g.fireballs[i], actual_scroll)],
                !.dropped_rocks = [i \in 1..Len(g.dropped_rocks) |->
                                     Shifted(g.dropped_rocks[i], actual_scroll)]]
Scroll(g, ld) ==
  LET ws == NewWorldShift(g.player, g.world_shift, LevelWidth(ld))
      actual_scroll == ws - g.world_shift
  IN  [g EXCEPT !.world_shift = ws,
                !.dragons = [i \in 1..Len(g.dragons) |-> Shifted(g.dragons[i], actual_scroll)],
                !.fireballs = [i \in 1..Len(g.fireballs) |-> Shifted(g.fireballs[i], actual_scroll)],
                !.dropped_rocks = [i \in 1..Len(g.dropped_rocks) |->
                                     Shifted(g.dropped_rocks[i], actual_scroll)]]

\* Lines 1156-1174: the treasures picked up.  lucky holds the dragons for
\* which random.random() came out below the wake chance.
TreasureHits(g, ld) ==
  {k \in g.treasures : CollideRect(g.player.rect, TreasureRect(Level(ld).treasures[k], g.world_shift))}
\* A noise that carries any distance.
CanHearAnywhere(d, ppos) == TRUE
\* wake_chance > 0: the dragon is nearer than DRAGON_WAKE_RANGE * 1.5.
CanHear(d, ppos) == DistLess(ppos, d.pos, (DRAGON_WAKE_RANGE * 3) \div 2)
\* A pickup that counts one treasure a frame, however many are hit.
PickupsOneAFrame(g, ld, lucky, t) ==
  LET hits == TreasureHits(g, ld)
  IN  [g EXCEPT !.treasures = g.treasures \ hits,
                !.score = g.score + (IF hits = {} THEN 0 ELSE 1),
                !.out = g.out \o [k \in 1..Cardinality(hits) |-> <<"coin_sound">>]]
Pickups(g, ld, lucky, t) ==
  LET hits == TreasureHits(g, ld)
      woken == {i \in 1..Len(g.dragons) :
                  /\ hits # {}
                  /\ g.dragons[i].state = "sleeping"
                  /\ CanHear(g.dragons[i], g.player.pos)
                  /\ i \in lucky}
      RECURSIVE Said(_)
      Said(i) == IF i = 0 THEN <<>>
                 ELSE Said(i - 1) \o
                      (IF i \in woken
                       THEN << <<"Treasure collection noise woke a dragon!", i>> >>
                              \o WakeUp(g.dragons[i], i, t).out
                       ELSE <<>>)
  IN  [g EXCEPT !.treasures = g.treasures \ hits,
                !.score = g.score + Cardinality(hits),
                !.dragons = [i \in 1..Len(g.dragons) |->
                               IF i \in woken THEN WakeUp(g.dragons[i], i, t).d
                               ELSE g.dragons[i]],
                !.out = g.out \o [k \in 1..Cardinality(hits) |-> <<"coin_sound">>]
                              \o Said(Len(g.dragons))]

\* A spawn rule that forgets that the BigTreasure has appeared.
SpawnBigTreasureAgain(g, ld) ==
  IF Len(Level(ld).treasures) > 0 /\ g.treasures = {}
  THEN [g EXCEPT !.big_treasure_sprite = TRUE, !.big_treasure_spawned = TRUE,
                 !.out = g.out \o << <<"All treasures collected! A Big Treasure appears!">> >>]
  ELSE g

\* Lines 1176-1183: the BigTreasure appears.
SpawnBigTreasure(g, ld) ==
  IF Len(Level(ld).treasures) > 0 /\ g.treasures = {} /\ ~g.big_treasure_spawned
  THEN [g EXCEPT !.big_treasure_sprite = TRUE, !.big_treasure_spawned = TRUE,
                 !.out = g.out \o << <<"All treasures collected! A Big Treasure appears!">> >>]
  ELSE g

\* Lines 1185-1192: the BigTreasure is collected.
CollectBigTreasure(g, ld) ==
  IF g.big_treasure_sprite /\ CollideRect(g.player.rect, BigTreasureRect(ld, g.world_shift))
  THEN [g EXCEPT !.score = g.score * 2, !.big_treasure_sprite = FALSE,
                 !.out = g.out \o << <<"coin_sound">>,
                                      <<"Big Treasure collected! Score doubled for this level!">> >>]
  ELSE g

\* Lines 1194-1203: the exit.
ReachExit(g, ld) ==
  IF CollideRect(g.player.rect, ExitRect(ld, g.world_shift))
  THEN [g EXCEPT !.total_score = g.total_score + g.score,
                 !.current_level_index = g.current_level_index + 1,
                 !.playing = FALSE,
                 !.state = IF g.current_level_index + 1 >= Len(levels)
                           THEN "game_won_all" ELSE "level_complete",
                 !.out = g.out \o << <<"Level Complete!", g.current_level_index + 1>> >>]
  ELSE g

\* Lines 1205-1222: what harms the player.
EnemyHits(g) ==
  {i \in 1..Len(g.dragons) : CollideRatio(g.player.rect, g.dragons[i].rect)}
FireballHits(g) ==
  {i \in 1..Len(g.fireballs) : CollideRatio(g.player.rect, g.fireballs[i].rect)}
PlayerHitActiveDragon(g) == \E i \in EnemyHits(g) : g.dragons[i].state # "sleeping"
\* The elements of a sequence whose places are not in a set.
Without(seq, places) ==
  LET RECURSIVE Keep(_)
      Keep(i) == IF i = 0 THEN <<>>
                 ELSE Keep(i - 1) \o (IF i \in places THEN <<>> ELSE <<seq[i]>>)
  IN  Keep(Len(seq))
\* A harm rule that tests the whole rectangles, not the hitboxes of 0.8.
HarmWholeRects(g) ==
  LET enemy_hits == {i \in 1..Len(g.dragons) : CollideRect(g.player.rect, g.dragons[i].rect)}
      fireball_hits == {i \in 1..Len(g.fireballs) : CollideRect(g.player.rect, g.fireballs[i].rect)}
      g1 == [g EXCEPT !.fireballs = Without(g.fireballs, fireball_hits)]
  IN  IF (\E i \in enemy_hits : g.dragons[i].state # "sleeping") \/ fireball_hits # {}
      THEN [g1 EXCEPT !.playing = FALSE, !.state = "game_over_lose",
                      !.out = g.out \o << <<"Game Over!">> >>]
      ELSE g1
Harm(g) ==
  LET g1 == [g EXCEPT !.fireballs = Without(g.fireballs, FireballHits(g))]
  IN  IF PlayerHitActiveDragon(g) \/ FireballHits(g) # {}
      THEN [g1 EXCEPT !.playing = FALSE, !.state = "game_over_lose",
                      !.out = g.out \o << <<"Game Over!">> >>]
      ELSE g1

\* Lines 1225-1244: the rocks that landed in this tick.
\* A choice of the last dragon that hears the rock.
HearerLast(ds, land_pos) ==
  LET hear == {i \in 1..Len(ds) : /\ ds[i].state # "sleeping"
                                  /\ DistLess(land_pos, ds[i].pos, LAND_SOUND_RADIUS)}
  IN  IF hear = {} THEN 0 ELSE CHOOSE i \in hear : \A j \in hear : i >= j
\* The first dragon, in group order, that hears the rock; 0 if none does.
Hearer(ds, land_pos) ==
  LET hear == {i \in 1..Len(ds) : /\ ds[i].state # "sleeping"
                                  /\ DistLess(land_pos, ds[i].pos, LAND_SOUND_RADIUS)}
  IN  IF hear = {} THEN 0 ELSE CHOOSE i \in hear : \A j \in hear : i <= j
RECURSIVE DistractAll(_, _, _, _)
DistractAll(g, rocks, killed, t) ==
  IF rocks = <<>>
  THEN [g EXCEPT !.dropped_rocks = Without(g.dropped_rocks, killed),
                 !.newly_landed_rocks = <<>>]
  ELSE LET k == Head(rocks)
           land_pos == g.dropped_rocks[k].land_pos
           i == IF land_pos = None \/ k \in killed THEN 0 ELSE Hearer(g.dragons, land_pos[1])
       IN  IF i = 0 THEN DistractAll(g, Tail(rocks), killed, t)
           ELSE DistractAll(
                  [g EXCEPT !.dragons[i] = GetDistracted(g.dragons[i], i, land_pos[1], t).d,
                            !.out = g.out \o GetDistracted(g.dragons[i], i, land_pos[1], t).out],
                  Tail(rocks), killed \cup {k}, t)
\* A distraction that leaves the rocks that were heard in the world.
RockDistractionKeepsRocks(g, t) ==
  [DistractAll(g, g.newly_landed_rocks, {}, t) EXCEPT !.dropped_rocks = g.dropped_rocks]
\* A distraction that removes every rock that landed in the tick, heard or
\* not.
RockDistractionKillsAll(g, t) ==
  [DistractAll(g, g.newly_landed_rocks, {}, t) EXCEPT
     !.dropped_rocks = Without(g.dropped_rocks,
                               {g.newly_landed_rocks[m] : m \in 1..Len(g.newly_landed_rocks)})]
RockDistraction(g, t) == DistractAll(g, g.newly_landed_rocks, {}, t)

\* Lines 1249-1257: fireballs off the screen and rocks below it are removed.
Cleanup(g) ==
  [g EXCEPT !.fireballs = SelectSeq(g.fireballs, LAMBDA f :
                CollideRect(Rect(-g.world_shift, 0, SCREEN_WIDTH, SCREEN_HEIGHT), f.rect)),
            !.dropped_rocks = SelectSeq(g.dropped_rocks, LAMBDA r : ~(r.rect.y > SCREEN_HEIGHT))]

\* Lines 1260-1265: the player and the dragons are kept inside the level.
Clamped(sp, width) ==
  LET s1 == IF sp.rect.x < 0
            THEN [sp EXCEPT !.rect = SetLeft(sp.rect, 0), !.pos.x = (sp.rect.w \div 2) * Q]
            ELSE sp
  IN  IF Right(s1.rect) > width
      THEN [s1 EXCEPT !.rect = SetRight(s1.rect, width),
                      !.pos.x = CenterX(SetRight(s1.rect, width)) * Q]
      ELSE s1
\* A failsafe that keeps the player inside the level and leaves the dragons
\* where the scroll has put them.
ClampPlayerOnly(g, ld) ==
  [g EXCEPT !.player = Clamped(g.player, LevelWidth(ld))]
\* The failsafe that ends Game.update.
Clamp(g, ld) ==
  [g EXCEPT !.player = Clamped(g.player, LevelWidth(ld)),
            !.dragons = [i \in 1..Len(g.dragons) |-> Clamped(g.dragons[i], LevelWidth(ld))]]

\* A Game.update that looks at the exit before the BigTreasure.
UpdateExitFirst(g, left, right, lucky, ld, t) ==
  Clamp(Cleanup(RockDistraction(Harm(CollectBigTreasure(ReachExit(SpawnBigTreasure(
    Pickups(Scroll(UpdateSprites(g, left, right, ld, t), ld), ld, lucky, t), ld), ld), ld)), t)), ld)
\* Game.update.
Update(g, left, right, lucky, ld, t) ==
  Clamp(Cleanup(RockDistraction(Harm(ReachExit(CollectBigTreasure(SpawnBigTreasure(
    Pickups(Scroll(UpdateSprites(g, left, right, ld, t), ld), ld, lucky, t), ld), ld), ld)), t)), ld)

---------------------------------------------------------------------------
(* Level catalogs, in the format of LEVELS (lines 81-522).  The program's  *)
(* levels are thousands of pixels wide; these are no narrower than the     *)
(* screen, as the program's are, but short, and laid out                   *)
(* around the place where Player.__init__ puts the player (centerx 200,    *)
(* bottom 550), so that a few frames reach every rule of Game.update.      *)
\* A corridor with a treasure to the left of the start and the exit to the
\* right; a dragon out of wake range, and one next to the exit.
WalkLevel ==
  [platforms |-> << <<0, 560, 800, 40>> >>,
   treasures |-> << <<175, 560>> >>,
   obstacles |-> << <<145, 560>> >>,
   dragons_start |-> << <<352, 560>>, <<254, 560>> >>,
   exit_pos |-> <<240, 560>>,
   level_width |-> 800]
\* The same corridor without the treasure.
LastLevel ==
  [platforms |-> << <<0, 560, 800, 40>> >>,
   treasures |-> << >>,
   obstacles |-> << <<145, 560>> >>,
   dragons_start |-> << <<352, 560>>, <<254, 560>> >>,
   exit_pos |-> <<240, 560>>,
   level_width |-> 800]
\* A den: the player between two walls, on a ledge too narrow to catch a
\* rock, with two dragons beyond the right wall.
DenLevel ==
  [platforms |-> << <<0, 560, 800, 40>>, <<185, 550, 7, 10>> >>,
   treasures |-> << >>,
   obstacles |-> << <<160, 560>>, <<240, 560>> >>,
   dragons_start |-> << <<315, 560>>, <<255, 560>> >>,
   exit_pos |-> <<380, 560>>,
   level_width |-> 800]
\* A level wider than the screen, with two dragons high above the way to
\* the exit.
WideLevel ==
  [platforms |-> << <<0, 560, 1600, 40>> >>,
   treasures |-> << >>,
   obstacles |-> << >>,
   dragons_start |-> << <<400, 300>>, <<900, 300>> >>,
   exit_pos |-> <<1400, 560>>,
   level_width |-> 1600]
\* A level that fits the screen: a ledge under the heel of the player to
\* jump from, and a dragon on the ground, out of wake range of the start.
AirLevel ==
  [platforms |-> << <<0, 560, 800, 40>>, <<180, 550, 6, 10>> >>,
   treasures |-> << >>,
   obstacles |-> << >>,
   dragons_start |-> << <<350, 560>> >>,
   exit_pos |-> <<700, 560>>,
   level_width |-> 800]
\* A level a little wider than the screen, and one as wide as the screen,
\* both with the dragons high above the ground.
PaceLevel ==
  [platforms |-> << <<0, 560, 1000, 40>> >>,
   treasures |-> << >>,
   obstacles |-> << >>,
   dragons_start |-> << <<500, 300>>, <<800, 300>> >>,
   exit_pos |-> <<980, 560>>,
   level_width |-> 1000]
HallLevel ==
  [platforms |-> << <<0, 560, 800, 40>> >>,
   treasures |-> << >>,
   obstacles |-> << >>,
   dragons_start |-> << <<400, 300>>, <<700, 300>> >>,
   exit_pos |-> <<780, 560>>,
   level_width |-> 800]
\* A level as wide as the screen with the exit a short run to the right of
\* the start, three treasures to the left of it, two of them one above the
\* other, and the dragons high above the ground.
CoastLevel ==
  [platforms |-> << <<0, 560, 800, 40>> >>,
   treasures |-> << <<175, 560>>, <<175, 550>>, <<150, 560>> >>,
   obstacles |-> << >>,
   dragons_start |-> << <<400, 300>>, <<700, 300>> >>,
   exit_pos |-> <<350, 560>>,
   level_width |-> 800]
\* Two treasures and the exit within a few steps of the start, and two
\* dragons asleep to the right: the farther one out of hearing of the first
\* pickup and within hearing of the second.
NoiseLevel ==
  [platforms |-> << <<0, 560, 800, 40>> >>,
   treasures |-> << <<222, 550>>, <<227, 550>> >>,
   obstacles |-> << >>,
   dragons_start |-> << <<426, 560>>, <<380, 560>> >>,
   exit_pos |-> <<245, 560>>,
   level_width |-> 800]
NoiseCatalog == <<NoiseLevel>>
\* A level wider than the screen with two dragons above the start, near
\* enough to wake and to follow the player to where the world scrolls.
TrekLevel ==
  [platforms |-> << <<0, 560, 1000, 40>> >>,
   treasures |-> << >>,
   obstacles |-> << >>,
   dragons_start |-> << <<250, 450>>, <<320, 440>> >>,
   exit_pos |-> <<980, 560>>,
   level_width |-> 1000]
TrekCatalog == <<TrekLevel>>
\* The exit a few steps from the start with the only treasure in front of
\* it, a ledge that catches a rock dropped at the start, a dragon asleep
\* high above and, when two are selected, one next to the exit.
HoardLevel ==
  [platforms |-> << <<0, 560, 800, 40>>, <<196, 550, 8, 10>> >>,
   treasures |-> << <<247, 550>> >>,
   obstacles |-> << >>,
   dragons_start |-> << <<400, 300>>, <<269, 540>> >>,
   exit_pos |-> <<257, 560>>,
   level_width |-> 800]
\* The only treasure at the start, and the exit a run away from it.
VaultLevel ==
  [platforms |-> << <<0, 560, 800, 40>> >>,
   treasures |-> << <<210, 550>> >>,
   obstacles |-> << >>,
   dragons_start |-> << <<400, 300>>, <<700, 300>> >>,
   exit_pos |-> <<270, 560>>,
   level_width |-> 800]
HoardCatalog == <<HoardLevel, VaultLevel>>
\* The level with the ledge and a second dragon on the ground, just within
\* wake range of the start, next to the one that is just out of it.
SkyLevel ==
  [platforms |-> << <<0, 560, 800, 40>>, <<180, 550, 6, 10>> >>,
   treasures |-> << >>,
   obstacles |-> << >>,
   dragons_start |-> << <<350, 560>>, <<300, 560>> >>,
   exit_pos |-> <<700, 560>>,
   level_width |-> 800]
SkyCatalog == <<SkyLevel>>
\* A level with one dragon on the ground, for the calls of Dragon.update.
LairLevel ==
  [platforms |-> << <<0, 560, 800, 40>> >>,
   treasures |-> << >>,
   obstacles |-> << >>,
   dragons_start |-> << <<400, 560>> >>,
   exit_pos |-> <<700, 560>>,
   level_width |-> 800]
LairCatalog == <<LairLevel>>
\* Where the player is when the dragon of the lair is updated, counted in
\* pixels from the centre the dragon is built with: on it, just above it,
\* far above it, and beside it.
Stands == { <<0, 0>>, <<0, -3>>, <<0, -60>>, <<40, 0>> }
\* A level whose ground has a gap under the start of the player, and a
\* dragon far from it.
PitLevel ==
  [platforms |-> << <<0, 560, 150, 40>>, <<300, 560, 500, 40>> >>,
   treasures |-> << >>,
   obstacles |-> << >>,
   dragons_start |-> << <<600, 560>> >>,
   exit_pos |-> <<700, 560>>,
   level_width |-> 800]
PitCatalog == <<PitLevel>>
WalkCatalog == <<WalkLevel, LastLevel>>
CoastCatalog == <<CoastLevel>>
PaceCatalog == <<PaceLevel, HallLevel>>
\* LEVELS (lines 81-522), the ten levels the game ships with, with
\* SCREEN_HEIGHT and GROUND_LEVEL worked out.
Level1 ==
  [platforms |-> << <<0, 560, 2000, 40>>, <<200, 450, 150, 20>>,
                   <<500, 350, 100, 20>>, <<750, 420, 120, 20>>,
                   <<1000, 300, 150, 20>>, <<1300, 400, 100, 20>> >>,
   treasures |-> << <<250, 450>>, <<550, 350>>, <<150, 560>>, <<900, 560>>,
                   <<1100, 300>>, <<1400, 560>> >>,
   obstacles |-> << <<400, 560>>, <<1200, 560>> >>,
   dragons_start |-> << <<1600, 560>> >>,
   exit_pos |-> <<1900, 560>>,
   level_width |-> 2000]
Level2 ==
  [platforms |-> << <<0, 560, 300, 40>>, <<400, 560, 500, 40>>,
                   <<1000, 560, 1000, 40>>, <<150, 480, 100, 20>>,
                   <<350, 400, 80, 20>>, <<600, 450, 150, 20>>,
                   <<850, 320, 100, 20>>, <<1100, 400, 120, 20>>,
                   <<1400, 500, 150, 20>>, <<1700, 350, 80, 20>> >>,
   treasures |-> << <<200, 480>>, <<400, 400>>, <<650, 450>>, <<50, 560>>,
                   <<900, 320>>, <<1150, 400>>, <<1450, 500>>, <<1750, 350>>,
                   <<1950, 560>> >>,
   obstacles |-> << <<700, 560>>, <<1300, 560>>, <<1600, 560>> >>,
   dragons_start |-> << <<1800, 560>> >>,
   exit_pos |-> <<1950, 560>>,
   level_width |-> 2000]
Level3 ==
  [platforms |-> << <<0, 560, 2200, 40>>, <<100, 500, 80, 20>>,
                   <<300, 420, 100, 20>>, <<500, 340, 120, 20>>,
                   <<750, 450, 100, 20>>, <<950, 280, 80, 20>>,
                   <<1200, 380, 150, 20>>, <<1450, 480, 100, 20>>,
                   <<1700, 300, 100, 20>>, <<1950, 400, 100, 20>> >>,
   treasures |-> << <<150, 500>>, <<350, 420>>, <<560, 340>>, <<800, 450>>,
                   <<1000, 280>>, <<1275, 380>>, <<1500, 480>>, <<50, 560>>,
                   <<1750, 300>>, <<2000, 400>>, <<1050, 560>>, <<1600, 560>> >>,
   obstacles |-> << <<250, 560>>, <<650, 420>>, <<900, 560>>, <<1400, 560>>,
                   <<1850, 560>> >>,
   dragons_start |-> << <<1900, 300>> >>,
   exit_pos |-> <<2150, 560>>,
   level_width |-> 2200]
Level4 ==
  [platforms |-> << <<0, 560, 400, 40>>, <<600, 560, 500, 40>>,
                   <<1300, 560, 1100, 40>>, <<450, 450, 100, 20>>,
                   <<500, 350, 80, 20>>, <<700, 420, 150, 20>>,
                   <<900, 300, 100, 20>>, <<1150, 380, 100, 20>>,
                   <<1400, 440, 120, 20>>, <<1650, 320, 80, 20>>,
                   <<1900, 480, 100, 20>>, <<2100, 400, 100, 20>> >>,
   treasures |-> << <<50, 560>>, <<500, 450>>, <<550, 350>>, <<750, 420>>,
                   <<950, 300>>, <<1200, 380>>, <<800, 560>>, <<1450, 440>>,
                   <<1700, 320>>, <<1950, 480>>, <<2150, 400>>, <<1500, 560>>,
                   <<2350, 560>> >>,
   obstacles |-> << <<300, 560>>, <<800, 560>>, <<1050, 560>>, <<1550, 560>>,
                   <<1800, 440>>, <<2200, 560>> >>,
   dragons_start |-> << <<2000, 560>> >>,
   exit_pos |-> <<2350, 560>>,
   level_width |-> 2400]
Level5 ==
  [platforms |-> << <<0, 560, 2600, 40>>, <<150, 500, 70, 20>>,
                   <<350, 450, 70, 20>>, <<550, 400, 70, 20>>,
                   <<750, 480, 70, 20>>, <<950, 350, 70, 20>>,
                   <<1150, 420, 70, 20>>, <<1300, 300, 200, 20>>,
                   <<1550, 350, 150, 20>>, <<1750, 450, 70, 20>>,
                   <<1950, 320, 70, 20>>, <<2150, 500, 70, 20>>,
                   <<2350, 380, 70, 20>> >>,
   treasures |-> << <<185, 500>>, <<385, 450>>, <<585, 400>>, <<785, 480>>,
                   <<985, 350>>, <<1185, 420>>, <<1400, 300>>, <<1625, 350>>,
                   <<1785, 450>>, <<1985, 320>>, <<2185, 500>>, <<2385, 380>>,
                   <<50, 560>>, <<1000, 560>>, <<2000, 560>> >>,
   obstacles |-> << <<450, 560>>, <<900, 560>>, <<1450, 300>>, <<1700, 560>>,
                   <<2100, 560>>, <<2450, 560>> >>,
   dragons_start |-> << <<2200, 560>>, <<1400, 300>> >>,
   exit_pos |-> <<2550, 560>>,
   level_width |-> 2600]
Level6 ==
  [platforms |-> << <<0, 560, 200, 40>>, <<300, 560, 300, 40>>,
                   <<700, 560, 400, 40>>, <<1200, 560, 300, 40>>,
                   <<1600, 560, 1200, 40>>, <<100, 500, 80, 20>>,
                   <<250, 420, 80, 20>>, <<150, 340, 80, 20>>,
                   <<300, 260, 80, 20>>, <<500, 350, 100, 20>>,
                   <<650, 420, 100, 20>>, <<800, 320, 100, 20>>,
                   <<950, 390, 100, 20>>, <<1100, 300, 80, 20>>,
                   <<1250, 400, 80, 20>>, <<1400, 480, 80, 20>>,
                   <<1700, 250, 150, 20>>, <<1900, 320, 100, 20>>,
                   <<2100, 280, 150, 20>>, <<2400, 350, 100, 20>> >>,
   treasures |-> << <<140, 500>>, <<290, 420>>, <<190, 340>>, <<340, 260>>,
                   <<550, 350>>, <<700, 420>>, <<850, 320>>, <<1000, 390>>,
                   <<1140, 300>>, <<1290, 400>>, <<1440, 480>>, <<1775, 250>>,
                   <<1950, 320>>, <<2175, 280>>, <<2450, 350>>, <<50, 560>>,
                   <<800, 560>>, <<1300, 560>>, <<2750, 560>> >>,
   obstacles |-> << <<400, 560>>, <<600, 420>>, <<1050, 560>>, <<1300, 400>>,
                   <<1650, 560>>, <<2000, 560>>, <<2300, 280>>, <<2600, 560>> >>,
   dragons_start |-> << <<2500, 250>>, <<1000, 560>> >>,
   exit_pos |-> <<2750, 560>>,
   level_width |-> 2800]
Level7 ==
  [platforms |-> << <<0, 560, 2800, 40>>, <<200, 500, 300, 20>>,
                   <<600, 420, 100, 20>>, <<800, 350, 150, 20>>,
                   <<1100, 450, 100, 20>>, <<1400, 320, 200, 20>>,
                   <<1700, 250, 150, 20>>, <<2000, 340, 100, 20>>,
                   <<2300, 480, 150, 20>>, <<2550, 400, 100, 20>> >>,
   treasures |-> << <<350, 500>>, <<650, 420>>, <<875, 350>>, <<1150, 450>>,
                   <<1500, 320>>, <<1775, 250>>, <<2050, 340>>, <<2375, 480>>,
                   <<2600, 400>>, <<100, 560>>, <<1000, 560>>, <<1900, 560>>,
                   <<2700, 560>> >>,
   obstacles |-> << <<500, 560>>, <<750, 560>>, <<1200, 560>>, <<1500, 320>>,
                   <<1650, 320>>, <<2150, 560>>, <<2450, 560>> >>,
   dragons_start |-> << <<950, 560>>, <<1800, 250>> >>,
   exit_pos |-> <<2750, 560>>,
   level_width |-> 2800]
Level8 ==
  [platforms |-> << <<0, 560, 3000, 40>>, <<100, 500, 100, 20>>,
                   <<300, 450, 100, 20>>, <<500, 500, 100, 20>>,
                   <<700, 400, 200, 20>>, <<1000, 300, 80, 20>>,
                   <<1150, 280, 80, 20>>, <<1300, 260, 80, 20>>,
                   <<1500, 350, 100, 20>>, <<1700, 250, 100, 20>>,
                   <<1900, 320, 100, 20>>, <<2200, 420, 150, 20>>,
                   <<2500, 360, 100, 20>>, <<2800, 450, 100, 20>> >>,
   treasures |-> << <<150, 500>>, <<350, 450>>, <<550, 500>>, <<800, 400>>,
                   <<1040, 300>>, <<1190, 280>>, <<1340, 260>>, <<1550, 350>>,
                   <<1750, 250>>, <<1950, 320>>, <<2275, 420>>, <<2550, 360>>,
                   <<2850, 450>>, <<400, 560>>, <<1400, 560>>, <<2100, 560>>,
                   <<2950, 560>> >>,
   obstacles |-> << <<600, 560>>, <<900, 400>>, <<1600, 560>>, <<1800, 250>>,
                   <<2400, 560>>, <<2700, 420>> >>,
   dragons_start |-> << <<1100, 450>>, <<2400, 560>> >>,
   exit_pos |-> <<2950, 560>>,
   level_width |-> 3000]
Level9 ==
  [platforms |-> << <<0, 560, 100, 40>>, <<2900, 560, 100, 40>>,
                   <<200, 450, 60, 20>>, <<400, 350, 60, 20>>,
                   <<600, 250, 60, 20>>, <<800, 320, 60, 20>>,
                   <<1000, 200, 60, 20>>, <<1200, 280, 60, 20>>,
                   <<1400, 400, 150, 20>>, <<1600, 300, 100, 20>>,
                   <<1800, 200, 80, 20>>, <<2000, 300, 100, 20>>,
                   <<2200, 400, 150, 20>>, <<2400, 250, 60, 20>>,
                   <<2600, 350, 60, 20>>, <<2800, 450, 60, 20>> >>,
   treasures |-> << <<230, 450>>, <<430, 350>>, <<630, 250>>, <<830, 320>>,
                   <<1030, 200>>, <<1230, 280>>, <<1475, 400>>, <<1650, 300>>,
                   <<1840, 200>>, <<2050, 300>>, <<2275, 400>>, <<2430, 250>>,
                   <<2630, 350>>, <<2830, 450>>, <<50, 560>> >>,
   obstacles |-> << <<500, 350>>, <<900, 320>>, <<1500, 400>>, <<1700, 300>>,
                   <<2100, 300>>, <<2500, 250>> >>,
   dragons_start |-> << <<1700, 450>>, <<300, 450>> >>,
   exit_pos |-> <<2950, 560>>,
   level_width |-> 3000]
Level10 ==
  [platforms |-> << <<0, 560, 3500, 40>>, <<150, 500, 100, 20>>,
                   <<350, 400, 100, 20>>, <<550, 300, 100, 20>>,
                   <<800, 450, 150, 20>>, <<1100, 350, 100, 20>>,
                   <<1300, 500, 80, 20>>, <<1500, 250, 120, 20>>,
                   <<1750, 380, 100, 20>>, <<2000, 200, 200, 20>>,
                   <<2300, 300, 150, 20>>, <<2550, 180, 100, 20>>,
                   <<2750, 250, 150, 20>>, <<3000, 400, 100, 20>>,
                   <<3200, 480, 100, 20>> >>,
   treasures |-> << <<200, 500>>, <<400, 400>>, <<600, 300>>, <<875, 450>>,
                   <<1150, 350>>, <<1340, 500>>, <<1560, 250>>, <<1800, 380>>,
                   <<2100, 200>>, <<2375, 300>>, <<2600, 180>>, <<2825, 250>>,
                   <<3050, 400>>, <<3250, 480>>, <<50, 560>>, <<1000, 560>>,
                   <<1600, 560>>, <<2200, 560>>, <<2900, 560>>, <<3450, 560>> >>,
   obstacles |-> << <<450, 560>>, <<700, 450>>, <<1200, 560>>, <<1400, 500>>,
                   <<1650, 250>>, <<1900, 560>>, <<2100, 200>>, <<2450, 300>>,
                   <<2700, 560>>, <<2950, 400>>, <<3150, 560>>, <<3350, 560>> >>,
   dragons_start |-> << <<3100, 560>>, <<1500, 250>>, <<600, 300>> >>,
   exit_pos |-> <<3450, 560>>,
   level_width |-> 3500]
LEVELS == <<Level1, Level2, Level3, Level4, Level5,
           Level6, Level7, Level8, Level9, Level10>>
DenCatalog == <<DenLevel>>
WideCatalog == <<WideLevel>>
AirCatalog == <<AirLevel>>

---------------------------------------------------------------------------
(* The program: Game(), g.show_start_screen(), the main loop.              *)
\* The Game object and its sprites, as one record.
Game ==
  [running |-> running, playing |-> playing, state |-> state,
   total_score |-> total_score, current_level_index |-> current_level_index,
   score |-> score, world_shift |-> world_shift,
   player |-> player, dragons |-> dragons, fireballs |-> fireballs,
   dropped_rocks |-> dropped_rocks, newly_landed_rocks |-> newly_landed_rocks,
   treasures |-> treasures, big_treasure_spawned |-> big_treasure_spawned,
   big_treasure_sprite |-> big_treasure_sprite, out |-> <<>>]
\* The variables take the fields of g.
Becomes(g) ==
  /\ running' = g.running
  /\ playing' = g.playing
  /\ state' = g.state
  /\ total_score' = g.total_score
  /\ current_level_index' = g.current_level_index
  /\ score' = g.score
  /\ world_shift' = g.world_shift
  /\ player' = g.player
  /\ dragons' = g.dragons
  /\ fireballs' = g.fireballs
  /\ dropped_rocks' = g.dropped_rocks
  /\ newly_landed_rocks' = g.newly_landed_rocks
  /\ treasures' = g.treasures
  /\ big_treasure_spawned' = g.big_treasure_spawned
  /\ big_treasure_sprite' = g.big_treasure_sprite
  /\ out' = g.out

\* Game.__init__ (lines 919-942) and the entry into show_start_screen
\* (lines 1342-1346).  No level is built yet: the groups are empty, and the
\* player stands for the object Game.new will create.
InitWith(catalog) ==
  /\ levels = catalog
  /\ pc = "start"
  /\ running = TRUE
  /\ playing = FALSE
  /\ state = "start"
  /\ total_score = 0
  /\ current_level_index = 0
  /\ num_selected_dragons = 1
  /\ level_data = 0
  /\ score = 0
  /\ world_shift = 0
  /\ now = 0
  /\ player = NewPlayer(0)
  /\ dragons = <<>>
  /\ fireballs = <<>>
  /\ dropped_rocks = <<>>
  /\ newly_landed_rocks = <<>>
  /\ treasures = {}
  /\ big_treasure_spawned = FALSE
  /\ big_treasure_sprite = FALSE
  /\ out = <<>>
Init == InitWith(WalkCatalog)
InitDen == InitWith(DenCatalog)
InitWide == InitWith(WideCatalog)
InitAir == InitWith(AirCatalog)
InitPace == InitWith(PaceCatalog)
InitCoast == InitWith(CoastCatalog)
InitNoise == InitWith(NoiseCatalog)
InitTrek == InitWith(TrekCatalog)
InitHoard == InitWith(HoardCatalog)
InitSky == InitWith(SkyCatalog)
InitPit == InitWith(PitCatalog)
\* Game.new (lines 958-1087) has built the lair: the dragon sleeps where the
\* level puts it, and the level loop is about to begin.
InitFire ==
  /\ levels = LairCatalog
  /\ pc = "run"
  /\ running = TRUE
  /\ playing = TRUE
  /\ state = "playing"
  /\ total_score = 0
  /\ current_level_index = 0
  /\ num_selected_dragons = 1
  /\ level_data = 0
  /\ score = 0
  /\ world_shift = 0
  /\ now = 0
  /\ player = NewPlayer(0)
  /\ dragons = <<NewDragon(LairLevel.dragons_start[1][1], LairLevel.dragons_start[1][2], 0)>>
  /\ fireballs = <<>>
  /\ dropped_rocks = <<>>
  /\ newly_landed_rocks = <<>>
  /\ treasures = {}
  /\ big_treasure_spawned = FALSE
  /\ big_treasure_sprite = FALSE
  /\ out = <<>>
\* Game.new about to build any level of LEVELS: the main loop (lines
\* 1442-1472) holds the index of the level to build, the start screen
\* (lines 1395-1397) leaves 1 to 5 dragons selected, and a level is built
\* either first (state "playing") or after the level before it was
\* completed (state "level_complete").
InitNew ==
  /\ levels = LEVELS
  /\ pc = "main"
  /\ running = TRUE
  /\ playing = FALSE
  /\ current_level_index \in 0..(Len(LEVELS) - 1)
  /\ state = IF current_level_index = 0 THEN "playing" ELSE "level_complete"
  /\ total_score = 0
  /\ num_selected_dragons \in 1..5
  /\ level_data = 0
  /\ score = 0
  /\ world_shift = 0
  /\ now = 0
  /\ player = NewPlayer(0)
  /\ dragons = <<>>
  /\ fireballs = <<>>
  /\ dropped_rocks = <<>>
  /\ newly_landed_rocks = <<>>
  /\ treasures = {}
  /\ big_treasure_spawned = FALSE
  /\ big_treasure_sprite = FALSE
  /\ out = <<>>

levelVars == <<level_data, score, world_shift, now, player, dragons, fireballs,
               dropped_rocks, newly_landed_rocks, treasures, big_treasure_spawned,
               big_treasure_sprite>>

\* handle_start_screen_input (lines 1381-1415), one event.
StartScreenKey(ev) ==
  /\ pc = "start"
  /\ running
  /\ \/ /\ ev \in {"QUIT", "K_ESCAPE"}
        /\ running' = FALSE
        /\ pc' = "main"
        /\ UNCHANGED <<num_selected_dragons, state>>
     \/ /\ ev = "K_PLUS"
        /\ num_selected_dragons < MaxSelect
        /\ num_selected_dragons' = Min(5, num_selected_dragons + 1)
        /\ UNCHANGED <<running, pc, state>>
     \/ /\ ev = "K_MINUS"
        /\ num_selected_dragons' = Max(1, num_selected_dragons - 1)
        /\ UNCHANGED <<running, pc, state>>
     \/ /\ ev = "K_RETURN"
        /\ state' = "playing"
        /\ pc' = "main"
        /\ UNCHANGED <<running, num_selected_dragons>>
  /\ out' = <<>>
  /\ UNCHANGED <<levels, playing, total_score, current_level_index>>
  /\ UNCHANGED levelVars

\* The main loop calls Game.new (lines 958-1087), which builds the level
\* and enters Game.run (line 1091).
NewLevel(rand) ==
  /\ pc = "main"
  /\ running
  /\ state \in {"playing", "level_complete"}
  /\ IF current_level_index >= Len(levels)
     THEN /\ state' = "game_won_all"
          /\ pc' = "after"
          /\ UNCHANGED <<playing, dragons>>
          /\ UNCHANGED <<level_data, score, world_shift, now, player, fireballs,
                         dropped_rocks, newly_landed_rocks, treasures,
                         big_treasure_spawned, big_treasure_sprite>>
     ELSE /\ level_data' = current_level_index
          /\ score' = 0
          /\ world_shift' = 0
          /\ newly_landed_rocks' = <<>>
          /\ big_treasure_spawned' = FALSE
          /\ big_treasure_sprite' = FALSE
          /\ now' = 0
          /\ player' = NewPlayer(0)
          /\ treasures' = 1..Len(Level(current_level_index).treasures)
          /\ fireballs' = <<>>
          /\ dropped_rocks' = <<>>
          /\ dragons' =
               LET at == SpawnedDragonPositions(current_level_index, num_selected_dragons, rand)
               IN  [i \in 1..Len(at) |-> NewDragon(at[i][1], at[i][2], 0)]
          /\ state' = "playing"
          /\ playing' = TRUE
          /\ pc' = "run"
  /\ out' = <<>>
  /\ UNCHANGED <<levels, running, total_score, current_level_index, num_selected_dragons>>

\* One pass of the loop of Game.run (lines 1092-1096): clock.tick, events,
\* update.  ev is the event found in the queue ("none" if it is empty),
\* left and right the arrow keys held, lucky the dragons random.random()
\* favours.
Frame(ev, left, right, lucky, frames, rocks) ==
  /\ pc = "run"
  /\ playing
  /\ now < frames * FrameMs
  /\ ev = "K_SPACE" => Len(dropped_rocks) < rocks
  /\ now' = now + FrameMs
  /\ \E g \in {Update(Events(Game, ev, PlatformRects(level_data, world_shift), now'),
                       left, right, lucky, level_data, now')} :
       /\ Becomes(g)
       /\ pc' = IF g.playing THEN "run" ELSE "after"
  /\ UNCHANGED <<levels, num_selected_dragons, level_data>>

\* An end screen that waits for a key even after a quit.
AfterLevelAlwaysWaits ==
  /\ pc = "after"
  /\ pc' = IF state \in {"game_won_all", "game_over_lose"} THEN "wait" ELSE "main"
  /\ out' = <<>>
  /\ UNCHANGED <<levels, running, playing, state, total_score, current_level_index,
                 num_selected_dragons>>
  /\ UNCHANGED levelVars

\* Game.new has returned to the main loop (lines 1450-1470), which shows
\* the end screen if the game is won or lost (lines 1363-1379).
AfterLevel ==
  /\ pc = "after"
  /\ pc' = IF state \in {"game_won_all", "game_over_lose"} /\ running THEN "wait" ELSE "main"
  /\ out' = <<>>
  /\ UNCHANGED <<levels, running, playing, state, total_score, current_level_index,
                 num_selected_dragons>>
  /\ UNCHANGED levelVars

\* A main loop that starts again without resetting the level index.
WaitKeyKeepsIndex(ev) ==
  /\ pc = "wait"
  /\ IF ev \in {"QUIT", "K_ESCAPE"}
     THEN /\ running' = FALSE
          /\ UNCHANGED <<current_level_index, total_score, state>>
     ELSE /\ total_score' = 0
          /\ state' = "playing"
          /\ UNCHANGED <<running, current_level_index>>
  /\ pc' = "main"
  /\ out' = <<>>
  /\ UNCHANGED <<levels, playing, num_selected_dragons>>
  /\ UNCHANGED levelVars

\* wait_for_key (lines 1417-1431), one event, and what the main loop does
\* when it returns.
WaitKey(ev) ==
  /\ pc = "wait"
  /\ IF ev \in {"QUIT", "K_ESCAPE"}
     THEN /\ running' = FALSE
          /\ UNCHANGED <<current_level_index, total_score, state>>
     ELSE /\ current_level_index' = 0
          /\ total_score' = 0
          /\ state' = "playing"
          /\ UNCHANGED running
  /\ pc' = "main"
  /\ out' = <<>>
  /\ UNCHANGED <<levels, playing, num_selected_dragons>>
  /\ UNCHANGED levelVars

\* The main loop ends (line 1472).
Exit ==
  /\ pc = "main"
  /\ ~running
  /\ pc' = "quit"
  /\ out' = <<>>
  /\ UNCHANGED <<levels, running, playing, state, total_score, current_level_index,
                 num_selected_dragons>>
  /\ UNCHANGED levelVars

\* The dragons to which random.random() may grant a noise wake-up: a
\* choice only matters for a sleeping dragon that can hear.
Favours == SUBSET {i \in 1..Len(dragons) : dragons[i].state = "sleeping"}

Next ==
  \/ \E ev \in {"QUIT", "K_ESCAPE", "K_PLUS", "K_MINUS", "K_RETURN"} : StartScreenKey(ev)
  \/ NewLevel(<<>>)
  \/ \E ev \in {"none", "QUIT", "K_ESCAPE"}, left \in BOOLEAN, lucky \in Favours :
       Frame(ev, left, ~left, lucky, MaxFrames, MaxRocks)
  \/ AfterLevel
  \/ \E ev \in {"QUIT", "K_ESCAPE", "K_RETURN"} : WaitKey(ev)
  \/ Exit

\* The corridor: the player walks (one arrow key is held in every frame),
\* and may quit.
Spec == Init /\ [][Next]_vars

\* The same runs, with the progress the main program makes by itself: when
\* Game.new returns it goes on to the end screen or to the test of the main
\* loop (lines 1445-1472), and the loop ends when running is false; neither
\* step waits for an input.
SpecQuit == Init /\ [][Next]_vars /\ WF_vars(AfterLevel) /\ WF_vars(Exit)

NextDen ==
  \/ \E ev \in {"QUIT", "K_ESCAPE", "K_PLUS", "K_MINUS", "K_RETURN"} : StartScreenKey(ev)
  \/ NewLevel(<<>>)
  \/ \E ev \in {"none", "K_SPACE", "QUIT"}, left \in BOOLEAN :
       Frame(ev, left, ~left, {}, DenFrames, MaxRocks)
  \/ AfterLevel
  \/ \E ev \in {"QUIT", "K_ESCAPE", "K_RETURN"} : WaitKey(ev)
  \/ Exit

\* The den: the player drops rocks.
SpecDen == InitDen /\ [][NextDen]_vars

NextWide ==
  \/ \E ev \in {"QUIT", "K_ESCAPE", "K_PLUS", "K_MINUS", "K_RETURN"} : StartScreenKey(ev)
  \/ NewLevel(<<>>)
  \/ \E ev \in {"none", "QUIT"} : Frame(ev, FALSE, TRUE, {}, WideFrames, MaxRocks)
  \/ AfterLevel
  \/ \E ev \in {"QUIT", "K_ESCAPE", "K_RETURN"} : WaitKey(ev)
  \/ Exit

\* The wide level: the player runs to the right, and the world scrolls.
SpecWide == InitWide /\ [][NextWide]_vars

\* The player is over the second platform of the level.
OnLedge ==
  player.rect.x < Level(level_data).platforms[2][1] + Level(level_data).platforms[2][3]
\* The player's rectangle, moved one pixel down, meets no platform and no
\* obstacle (the test of Player.jump, lines 574-575).
InTheAir ==
  Hits([player.rect EXCEPT !.y = player.rect.y + 1],
       PlatformRects(level_data, world_shift)) = <<>>
NextAir ==
  \/ \E ev \in {"QUIT", "K_ESCAPE", "K_PLUS", "K_MINUS", "K_RETURN"} : StartScreenKey(ev)
  \/ NewLevel(<<>>)
  \/ Frame("none", FALSE, TRUE, {}, AirFrames, MaxRocks)
  \/ OnLedge /\ Frame("K_UP", FALSE, TRUE, {}, AirFrames, MaxRocks)
  \/ InTheAir /\ Frame("K_UP", FALSE, TRUE, {}, AirFrames, MaxRocks)
  \/ ~player.on_ground /\ Frame("K_SPACE", FALSE, TRUE, {}, AirFrames, MaxRocks)
  \/ AfterLevel
  \/ \E ev \in {"QUIT", "K_ESCAPE", "K_RETURN"} : WaitKey(ev)
  \/ Exit

\* The level with the ledge: the player runs to the right, jumps from the
\* ledge, asks for a jump and drops a rock while in the air.
SpecAir == InitAir /\ [][NextAir]_vars

\* The player runs to the right from rest and at full speed, and until it
\* is past TurnAt; past TurnAt it may turn, and it then runs to the left
\* for as long as it moves to the left.
RunsRight ==
  /\ player.vel.x >= 0
  /\ CenterX(player.rect) < TurnAt \/ player.vel.x = PLAYER_MAX_VX * Q
RunsLeft == player.vel.x < 0 \/ CenterX(player.rect) >= TurnAt
NextPace ==
  \/ \E ev \in {"QUIT", "K_ESCAPE", "K_PLUS", "K_MINUS", "K_RETURN"} : StartScreenKey(ev)
  \/ NewLevel(<<>>)
  \/ RunsRight /\ Frame("none", FALSE, TRUE, {}, PaceFrames, MaxRocks)
  \/ RunsLeft /\ Frame("none", TRUE, FALSE, {}, PaceFrames, MaxRocks)
  \/ AfterLevel
  \/ \E ev \in {"QUIT", "K_ESCAPE", "K_RETURN"} : WaitKey(ev)
  \/ Exit

\* The levels paced: the player runs to the right, turns somewhere past
\* TurnAt and runs back, and the world scrolls both ways.
SpecPace == InitPace /\ [][NextPace]_vars

\* An arrow key is held in the first frames of the level only, by a player
\* at rest or gaining speed in the direction of the arrow.
Gaining == player.vel.x % PLAYER_ACC = 0 /\ now < PressFrames * FrameMs
NextCoast ==
  \/ \E ev \in {"QUIT", "K_ESCAPE", "K_PLUS", "K_MINUS", "K_RETURN"} : StartScreenKey(ev)
  \/ NewLevel(<<>>)
  \/ Frame("none", FALSE, FALSE, {}, CoastFrames, MaxRocks)
  \/ (Gaining /\ player.vel.x >= 0) /\ Frame("none", FALSE, TRUE, {}, CoastFrames, MaxRocks)
  \/ (Gaining /\ player.vel.x <= 0) /\ Frame("none", TRUE, FALSE, {}, CoastFrames, MaxRocks)
  \/ AfterLevel
  \/ \E ev \in {"QUIT", "K_ESCAPE", "K_RETURN"} : WaitKey(ev)
  \/ Exit

\* The level coasted: the player gains speed to the right or to the left,
\* lets go of the arrow keys, and coasts.
SpecCoast == InitCoast /\ [][NextCoast]_vars

NextNoise ==
  \/ \E ev \in {"QUIT", "K_ESCAPE", "K_PLUS", "K_MINUS", "K_RETURN"} : StartScreenKey(ev)
  \/ NewLevel(<<>>)
  \/ \E ev \in {"none", "QUIT"}, left \in BOOLEAN, lucky \in Favours :
       Frame(ev, left, ~left, lucky, NoiseFrames, MaxRocks)
  \/ AfterLevel
  \/ \E ev \in {"QUIT", "K_ESCAPE", "K_RETURN"} : WaitKey(ev)
  \/ Exit

\* The level with the two treasures: the player walks, and the noise of a
\* pickup may wake the dragons.
SpecNoise == InitNoise /\ [][NextNoise]_vars

NextTrek ==
  \/ \E ev \in {"QUIT", "K_ESCAPE", "K_PLUS", "K_MINUS", "K_RETURN"} : StartScreenKey(ev)
  \/ NewLevel(<<>>)
  \/ Frame("none", FALSE, TRUE, {}, TrekFrames, MaxRocks)
  \/ CenterX(player.rect) >= DropFrom /\ Frame("K_SPACE", FALSE, TRUE, {}, TrekFrames, MaxRocks)
  \/ AfterLevel
  \/ \E ev \in {"QUIT", "K_ESCAPE", "K_RETURN"} : WaitKey(ev)
  \/ Exit

\* The trek: the player runs to the right, the dragons follow, and near
\* the place where the world begins to scroll the player drops rocks.
SpecTrek == InitTrek /\ [][NextTrek]_vars

NextHoard ==
  \/ \E ev \in {"QUIT", "K_ESCAPE", "K_PLUS", "K_MINUS", "K_RETURN"} : StartScreenKey(ev)
  \/ NewLevel(<<>>)
  \/ \E ev \in {"none", "K_SPACE"} : Frame(ev, FALSE, TRUE, {}, HoardFrames, MaxRocks)
  \/ player.vel.x <= 0 /\ Frame("none", TRUE, FALSE, {}, HoardFrames, MaxRocks)
  \/ AfterLevel
  \/ \E ev \in {"QUIT", "K_ESCAPE", "K_RETURN"} : WaitKey(ev)
  \/ Exit

\* The hoard: the player walks to an exit at which the BigTreasure lies,
\* after some steps to the left or at once, and may drop a rock on the way.
SpecHoard == InitHoard /\ [][NextHoard]_vars

NextSky ==
  \/ \E ev \in {"QUIT", "K_ESCAPE", "K_PLUS", "K_MINUS", "K_RETURN"} : StartScreenKey(ev)
  \/ NewLevel(<<>>)
  \/ Frame("none", FALSE, TRUE, {}, SkyFrames, MaxRocks)
  \/ OnLedge /\ Frame("K_UP", FALSE, TRUE, {}, SkyFrames, MaxRocks)
  \/ /\ ~player.on_ground
     /\ CenterX(player.rect) \in DropOver..(DropOver + DropSpan)
     /\ Frame("K_SPACE", FALSE, TRUE, {}, SkyFrames, MaxRocks)
  \/ AfterLevel
  \/ \E ev \in {"QUIT", "K_ESCAPE", "K_RETURN"} : WaitKey(ev)
  \/ Exit

\* The level with the ledge and two dragons: the player runs to the right,
\* jumps from the ledge over the dragons and drops rocks while in the air
\* over the stretch before the dragons.
SpecSky == InitSky /\ [][NextSky]_vars

\* Dragon.update (lines 720-772) called on the dragon of the lair, one frame
\* after the call before, with the player at the stand `at': the dragon is
\* updated, and what it fires joins the fireballs; nothing else of the
\* frame is run.
DragonTick(at) ==
  /\ pc = "run"
  /\ playing
  /\ now < FireCalls * FrameMs
  /\ now' = now + FrameMs
  /\ LET x == LairLevel.dragons_start[1][1] + at[1]
         y == LairLevel.dragons_start[1][2] - DRAGON_SIZE[2] \div 2 + at[2]
         u == DragonUpdate(dragons[1], 1, VecPx(x, y), now')
     IN  /\ player' = [player EXCEPT !.pos = VecPx(x, y),
                                     !.rect = RectAt(PLAYER_SIZE, x, y)]
         /\ dragons' = <<u.d>>
         /\ fireballs' = fireballs \o u.fireballs
         /\ out' = u.out
  /\ UNCHANGED <<levels, running, playing, state, total_score, current_level_index,
                 num_selected_dragons, level_data, score, world_shift, pc,
                 dropped_rocks, newly_landed_rocks, treasures, big_treasure_spawned,
                 big_treasure_sprite>>

NextFire == \E at \in Stands : DragonTick(at)

\* The dragon of the lair, updated again and again while the player is at
\* one stand or another.
SpecFire == InitFire /\ [][NextFire]_vars

NextPit ==
  \/ \E ev \in {"QUIT", "K_ESCAPE", "K_PLUS", "K_MINUS", "K_RETURN"} : StartScreenKey(ev)
  \/ NewLevel(<<>>)
  \/ \E ev \in {"none", "QUIT"} : Frame(ev, FALSE, FALSE, {}, PitFrames, MaxRocks)
  \/ player.on_ground /\ \E ev \in {"none", "K_UP"}, left \in BOOLEAN :
       Frame(ev, left, ~left, {}, PitFrames, MaxRocks)
  \/ AfterLevel
  \/ Exit

\* The level with the gap: the player falls into it, and may ask for a jump
\* or push to a side when the floor has caught them.
SpecPit == InitPit /\ [][NextPit]_vars

\* The level with the gap again, with a player who may drop a rock in any
\* frame: on the ground on either side of the gap, in a jump, and while
\* falling into the gap.
NextDrop ==
  \/ NextPit
  \/ Frame("K_SPACE", FALSE, FALSE, {}, PitFrames, MaxRocks)
SpecDrop == InitPit /\ [][NextDrop]_vars

NextNew ==
  \/ \E rand \in [1..RandomDraws(current_level_index, num_selected_dragons)
                    -> FallbackXs(current_level_index)] : NewLevel(rand)
  \/ Frame("none", FALSE, FALSE, {}, NewFrames, MaxRocks)

\* Every level of LEVELS built with every number of dragons, and its first
\* frames.
SpecNew == InitNew /\ [][NextNew]_vars

\* The player is falling.
Falling == ~player.on_ground /\ player.vel.y > 0
NextHail ==
  \/ \E ev \in {"QUIT", "K_ESCAPE", "K_PLUS", "K_MINUS", "K_RETURN"} : StartScreenKey(ev)
  \/ NewLevel(<<>>)
  \/ Frame("none", FALSE, TRUE, {}, HailFrames, HailRocks)
  \/ OnLedge /\ Frame("K_UP", FALSE, TRUE, {}, HailFrames, HailRocks)
  \/ Falling /\ Frame("K_SPACE", FALSE, TRUE, {}, HailFrames, HailRocks)
  \/ AfterLevel
  \/ \E ev \in {"QUIT", "K_ESCAPE", "K_RETURN"} : WaitKey(ev)
  \/ Exit

\* The same level: the player runs to the right, jumps from the ledge, and
\* drops rocks while falling.
SpecHail == InitAir /\ [][NextHail]_vars

---------------------------------------------------------------------------
(* Properties.                                                             *)
\* m, or <<m, i>>, is among the things o lists.
SaidIn(o, m) == \E k \in 1..Len(o) : o[k][1] = m
SaidOfIn(o, m, i) == \E k \in 1..Len(o) : o[k] = <<m, i>>
Said(m) == SaidIn(out, m)
SaidOf(m, i) == SaidOfIn(out, m, i)
\* A step of the level loop: a Frame.
FrameStep == pc = "run" /\ now' # now
DragonStates == {"sleeping", "chasing", "distracted"}

\* What wake_up, get_distracted and update leave in a dragon, from every
\* state the program reaches.
DragonStateOk ==
  \A i \in 1..Len(dragons) :
    LET d == dragons[i]
    IN  /\ d.state \in DragonStates
        /\ WakeUp(d, i, now).d.state \in DragonStates \ {"sleeping"}
        /\ GetDistracted(d, i, player.pos, now).d.state \in DragonStates
        /\ DragonUpdate(d, i, player.pos, now).d.state \in DragonStates
        /\ d.state = "sleeping" => WakeUp(d, i, now).d.state = "chasing"
        /\ d.state = "sleeping" => GetDistracted(d, i, player.pos, now).d = d
        /\ d.state = "sleeping" =>
             DragonUpdate(d, i, player.pos, now).d \in {d, WakeUp(d, i, now).d}
\* A dragon that stops sleeping in a frame went through wake_up: the roar
\* was played and the fireball timer was set to the clock.
LeavesSleepingByWakeUp ==
  FrameStep =>
    \A i \in 1..Len(dragons) :
      (dragons[i].state = "sleeping" /\ dragons'[i].state # "sleeping") =>
        /\ SaidOfIn(out', "dragon_roar_sound", i)
        /\ dragons'[i].last_fireball = now'
\* C1: after Dragon.update, wake_up and get_distracted the state of a
\* dragon is sleeping, chasing or distracted, never waking, in every state
\* the program reaches and after each of the three calls made from it;
\* wake_up turns a sleeping dragon into a chasing one, and a dragon that
\* stops sleeping in a frame has gone through wake_up.
C1_DragonStates == []DragonStateOk /\ [][LeavesSleepingByWakeUp]_vars
\* A rock has just distracted one dragon while another one chases.
C1_Witness ==
  \E i \in 1..Len(dragons) :
    /\ SaidOf("Dragon distracted!", i)
    /\ dragons[i].state = "distracted"
    /\ \E j \in 1..Len(dragons) : dragons[j].state = "chasing"

\* The dragon sleeps when the frame begins, and its update finds the player
\* nearer than DRAGON_WAKE_RANGE.
SeesPlayer(i) ==
  /\ dragons[i].state = "sleeping"
  /\ DistLess(dragons[i].pos, player'.pos, DRAGON_WAKE_RANGE)
\* The dragon sleeps when the frame begins, its update finds the player at
\* DRAGON_WAKE_RANGE or farther, and no treasure's noise wakes it.
SleepsOn(i) ==
  /\ dragons[i].state = "sleeping"
  /\ ~DistLess(dragons[i].pos, player'.pos, DRAGON_WAKE_RANGE)
  /\ ~SaidOfIn(out', "Treasure collection noise woke a dragon!", i)
\* C2 as it is stated: in a frame in which the update of a sleeping dragon
\* finds the player nearer than 150, the dragon ends the frame chasing with
\* its fireball timer reset to the clock; if the player is at 150 or
\* farther, and the noise of a treasure did not wake it, the dragon still
\* sleeps at the end of the frame.
WakesByProximity ==
  FrameStep =>
    \A i \in 1..Len(dragons) :
      /\ SeesPlayer(i) => /\ dragons'[i].state = "chasing"
                          /\ dragons'[i].last_fireball = now'
      /\ SleepsOn(i) => dragons'[i].state = "sleeping"
C2_AsStated == [][WakesByProximity]_vars
\* A rock of dropped_rocks lands in this frame, and of the dragons that do
\* not sleep at the end of the frame and are nearer than LAND_SOUND_RADIUS
\* to the landing point, dragon i is the first.
RockLandsNear(i) ==
  \E k \in 1..Len(dropped_rocks) :
    LET ru == RockUpdate(dropped_rocks[k], PlatformRects(level_data, world_shift))
        hear == {j \in 1..Len(dragons) :
                   /\ dragons'[j].state # "sleeping"
                   /\ DistLess(ru.r.land_pos[1], dragons'[j].pos, LAND_SOUND_RADIUS)}
    IN  ru.landed_now /\ i \in hear /\ \A j \in hear : i <= j
WakesOrIsDistracted ==
  FrameStep =>
    \A i \in 1..Len(dragons) :
      /\ SeesPlayer(i) =>
           /\ dragons'[i].last_fireball = now'
           /\ IF RockLandsNear(i)
              THEN /\ dragons'[i].state = "distracted"
                   /\ dragons'[i].distraction_timer = now'
              ELSE dragons'[i].state = "chasing"
      /\ SleepsOn(i) => dragons'[i].state = "sleeping"
\* C2, amended: in a frame in which the update of a sleeping dragon finds
\* the player nearer than 150, the dragon does not sleep at the end of the
\* frame and its fireball timer is reset to the clock: it is chasing, unless
\* a rock landed in that frame nearer than 100 to it and to no dragon
\* before it that is awake, and then it is distracted; if the player is at 150 or farther, and the noise of a
\* treasure did not wake it, the dragon still sleeps at the end of the frame.
C2_WakeByProximity == [][WakesOrIsDistracted]_vars
\* The dragon sensed the player in the frame in which the rock landed next
\* to it: it roared, and is distracted.
C2_Witness ==
  /\ SaidOf("Dragon senses player!", 1)
  /\ SaidOf("Dragon distracted!", 1)
  /\ dragons[1].state = "distracted"
  /\ dragons[1].last_fireball = now

\* The dragon sleeps when the frame begins and when it ends.
SleepsThrough(i) == dragons[i].state = "sleeping" /\ dragons'[i].state = "sleeping"
\* C3 as it is stated: over a frame in which a dragon sleeps at the start
\* and at the end, its position vector and its rectangle do not change,
\* and it adds no Fireball.
SleeperStaysPut ==
  FrameStep =>
    \A i \in 1..Len(dragons) :
      SleepsThrough(i) =>
        /\ dragons'[i].pos = dragons[i].pos
        /\ dragons'[i].rect = dragons[i].rect
        /\ ~SaidOfIn(out', "Fireball", i)
C3_AsStated == [][SleeperStaysPut]_vars
\* Where the scroll of the frame, and then the bounds of the level, put a
\* sprite whose rectangle was r and whose position was pos.
ScrolledRect(r, d, width) ==
  [r EXCEPT !.x = IF r.x + d < 0 THEN 0
                  ELSE IF r.x + d + r.w > width THEN width - r.w
                  ELSE r.x + d]
ScrolledPos(r, pos, d, width) ==
  [pos EXCEPT !.x = IF r.x + d < 0 \/ r.x + d + r.w > width
                    THEN (ScrolledRect(r, d, width).x + r.w \div 2) * Q
                    ELSE pos.x + d * Q]
SleeperOnlyScrolls ==
  FrameStep =>
    \A i \in 1..Len(dragons) :
      SleepsThrough(i) =>
        LET d == world_shift' - world_shift
            width == levels[level_data + 1].level_width
        IN  /\ dragons'[i].rect = ScrolledRect(dragons[i].rect, d, width)
            /\ dragons'[i].pos = ScrolledPos(dragons[i].rect, dragons[i].pos, d, width)
            /\ dragons'[i].last_fireball = dragons[i].last_fireball
            /\ ~SaidOfIn(out', "Fireball", i)
            /\ d = 0 => dragons'[i] = dragons[i]
\* C3, amended: over a frame in which a dragon sleeps at the start and at
\* the end, it adds no Fireball, and its position vector and rectangle
\* change only as those of every sprite but the player do: their x moves
\* by the scroll of the frame (the change of world_shift), and is then kept
\* inside the level; in a frame that does not scroll they do not change.
C3_SleeperOnlyScrolls == [][SleeperOnlyScrolls]_vars
\* The world has scrolled under a dragon that is still asleep: it is where
\* the scroll has put it.
C3_Witness ==
  /\ pc = "run"
  /\ world_shift < 0
  /\ dragons[1].state = "sleeping"
  /\ dragons[1].rect.x = 370 + world_shift

\* How many times <<m, i>> is listed in o.
TimesIn(o, m, i) == Cardinality({k \in 1..Len(o) : o[k] = <<m, i>>})
\* Where dragon i was when its update ended, before the scroll of the frame.
PosAfterUpdate(i) ==
  [dragons'[i].pos EXCEPT !.x = dragons'[i].pos.x - (world_shift' - world_shift) * Q]
\* The level bounds did not move the dragon at the end of the frame.
NotClamped(i) ==
  /\ dragons'[i].rect.x > 0
  /\ dragons'[i].rect.x + dragons'[i].rect.w < levels[level_data + 1].level_width
\* Fireball f sits on the centre of dragon i and flies along w at
\* FIREBALL_SPEED, up to the grain of the arithmetic.
AimedAlong(f, i, w) ==
  /\ f.pos.x = (dragons'[i].rect.x + dragons'[i].rect.w \div 2) * Q
  /\ f.pos.y = (dragons'[i].rect.y + dragons'[i].rect.h \div 2) * Q
  /\ f.vel.x * w.x + f.vel.y * w.y > 0
  /\ LET cross == f.vel.x * w.y - f.vel.y * w.x
         slack == 2 * ((IF w.x < 0 THEN -w.x ELSE w.x) + (IF w.y < 0 THEN -w.y ELSE w.y)) + 20 * Q
     IN  -slack <= cross /\ cross <= slack
  /\ LET speed2 == f.vel.x * f.vel.x + f.vel.y * f.vel.y
     IN  /\ (FIREBALL_SPEED * Q - 5) * (FIREBALL_SPEED * Q - 5) <= speed2
         /\ speed2 <= (FIREBALL_SPEED * Q + 5) * (FIREBALL_SPEED * Q + 5)
ChaserFires ==
  FrameStep =>
    \A i \in 1..Len(dragons) :
      LET elapsed == now' - dragons[i].last_fireball
          w == VSub(player'.pos, PosAfterUpdate(i))
      IN  /\ (dragons[i].state = "chasing" /\ elapsed > 2000 /\ NotClamped(i) /\ NonZero(w)) =>
                /\ TimesIn(out', "Fireball", i) = 1
                /\ dragons'[i].last_fireball = now'
                /\ state' # "game_over_lose" =>
                     \E k \in 1..Len(fireballs') : AimedAlong(fireballs'[k], i, w)
          /\ (dragons[i].state = "chasing" /\ elapsed <= 2000) =>
                /\ TimesIn(out', "Fireball", i) = 0
                /\ dragons'[i].last_fireball = dragons[i].last_fireball
          /\ dragons[i].state # "chasing" => TimesIn(out', "Fireball", i) = 0
          /\ TimesIn(out', "Fireball", i) > 0 => elapsed > 2000
          /\ dragons'[i].last_fireball \in {dragons[i].last_fireball, now'}
\* C4: in a frame in which more than 2000 ms have passed since the last
\* fireball of a chasing dragon, and the vector from the dragon to the
\* player is not zero, the dragon adds exactly one Fireball, on its centre
\* and flying at FIREBALL_SPEED toward the player's position, and sets its
\* fireball timer to the clock; in a frame in which no more than 2000 ms
\* have passed it adds none and keeps the timer; the timer never takes a
\* value but the clock, so that a dragon's fireballs are more than 2000 ms
\* apart.
C4_ChaserFires == [][ChaserFires]_vars
\* A dragon has just fired, not for the first time in the level: its timer
\* is the clock, and an earlier fireball is still in flight.
C4_Witness ==
  \E i \in 1..Len(dragons) :
    /\ SaidOf("Fireball", i)
    /\ dragons[i].last_fireball = now
    /\ state = "playing"
    /\ Len(fireballs) >= 2
    /\ now >= 2 * 2000

\* No rock distracts dragon i in the frame.
NotRetriggered(i) == ~SaidOfIn(out', "Dragon distracted!", i)
\* Dragon i has stayed where it was, or has made one step of DRAGON_SPEED
\* along w, up to the grain of the arithmetic.
SteppedAlong(i, w) ==
  LET m == VSub(PosAfterUpdate(i), dragons[i].pos)
      cross == m.x * w.y - m.y * w.x
      slack == 2 * ((IF w.x < 0 THEN -w.x ELSE w.x) + (IF w.y < 0 THEN -w.y ELSE w.y)) + 20 * Q
      step2 == m.x * m.x + m.y * m.y
  IN  /\ m.x * w.x + m.y * w.y > 0
      /\ -slack <= cross /\ cross <= slack
      /\ (DRAGON_SPEED - 3) * (DRAGON_SPEED - 3) <= step2
      /\ step2 <= (DRAGON_SPEED + 3) * (DRAGON_SPEED + 3)
DistractionEnds ==
  FrameStep =>
    \A i \in 1..Len(dragons) :
      LET elapsed == now' - dragons[i].distraction_timer
          w == VSub(player'.pos, dragons[i].pos)
      IN  /\ (dragons[i].state = "distracted" /\ NotRetriggered(i) /\ elapsed <= 3000) =>
                /\ dragons'[i].state = "distracted"
                /\ dragons'[i].distraction_target = dragons[i].distraction_target
                /\ dragons'[i].distraction_timer = dragons[i].distraction_timer
          /\ (dragons[i].state = "distracted" /\ NotRetriggered(i) /\ elapsed > 3000) =>
                /\ dragons'[i].state = "chasing"
                /\ dragons'[i].distraction_target = None
                /\ SaidOfIn(out', "Dragon no longer distracted.", i)
          /\ (dragons[i].state = "chasing" /\ NotClamped(i)) =>
                /\ dragons[i].distraction_target = None
                /\ IF DistGreater(dragons[i].pos, player'.pos, CHASE_EPS)
                   THEN SteppedAlong(i, w)
                   ELSE PosAfterUpdate(i) = dragons[i].pos
\* C5: a distracted dragon that no rock distracts again stays distracted,
\* with the same target and timer, in every frame in which no more than
\* 3000 ms have passed since it was distracted, and in the first frame in
\* which more have passed it becomes chasing and its distraction target is
\* cleared; a chasing dragon holds no distraction target, and the step it
\* makes in a frame is a step of DRAGON_SPEED toward the player's position.
C5_DistractionEnds == [][DistractionEnds]_vars
\* A dragon that was distracted chases again, and has made a step since
\* its distraction ended.
C5_Witness ==
  \E i \in 1..Len(dragons) :
    /\ dragons[i].state = "chasing"
    /\ dragons[i].distraction_timer > 0
    /\ dragons[i].distraction_target = None
    /\ now > dragons[i].distraction_timer + 3000 + FrameMs
    /\ ~SaidOf("Dragon no longer distracted.", i)

\* Rock k of dropped_rocks as DroppedRock.update leaves it in the frame.
RockAfterUpdate(k) ==
  RockUpdate(dropped_rocks[k], PlatformRects(level_data, world_shift))
\* The rocks of dropped_rocks that land in the frame.
LandingNow == {k \in 1..Len(dropped_rocks) : RockAfterUpdate(k).landed_now}
LandingPoint(k) == RockAfterUpdate(k).r.land_pos[1]
\* The dragons that do not sleep at the end of the frame and are nearer
\* than 100 to the point where rock k lands.
Hearing(k) ==
  {j \in 1..Len(dragons) :
     /\ dragons'[j].state # "sleeping"
     /\ DistLess(LandingPoint(k), dragons'[j].pos, 100)}
FirstHearing(k) == CHOOSE i \in Hearing(k) : \A j \in Hearing(k) : i <= j
\* How many rocks of the sequence rest at the point L.
RestingAt(rocks, L) ==
  Cardinality({m \in 1..Len(rocks) : rocks[m].landed /\ rocks[m].land_pos = <<L>>})
\* Rock k, heard in the frame, is no longer in the world.
Gone(k) ==
  RestingAt(dropped_rocks', LandingPoint(k)) <= RestingAt(dropped_rocks, LandingPoint(k))
\* C6 as it is stated: when a rock lands nearer than 100 to a dragon that
\* does not sleep, the first such dragon ends the frame distracted, with
\* the landing point of the rock as its target, and the rock is removed.
RockDistracts ==
  FrameStep =>
    \A k \in LandingNow :
      Hearing(k) # {} =>
        /\ dragons'[FirstHearing(k)].state = "distracted"
        /\ dragons'[FirstHearing(k)].distraction_target = <<LandingPoint(k)>>
        /\ Gone(k)
C6_AsStated == [][RockDistracts]_vars
\* No rock after k in dropped_rocks lands in the frame with the same
\* dragon as the first to hear it.
LastFor(k) ==
  \A m \in LandingNow : m > k => (Hearing(m) = {} \/ FirstHearing(m) # FirstHearing(k))
RockDistractsLastWins ==
  FrameStep =>
    \A k \in LandingNow :
      Hearing(k) # {} =>
        /\ dragons'[FirstHearing(k)].state = "distracted"
        /\ dragons'[FirstHearing(k)].distraction_timer = now'
        /\ LastFor(k) => dragons'[FirstHearing(k)].distraction_target = <<LandingPoint(k)>>
        /\ \E m \in LandingNow :
             /\ Hearing(m) # {}
             /\ FirstHearing(m) = FirstHearing(k)
             /\ dragons'[FirstHearing(k)].distraction_target = <<LandingPoint(m)>>
        /\ Gone(k)
\* C6, amended: when a rock lands nearer than 100 to a dragon that does not
\* sleep, the first such dragon ends the frame distracted, its distraction
\* timer set to the clock, and the rock is removed; the dragon's target is
\* the landing point of that rock, unless a later rock landed in the same
\* frame with the same dragon as the first to hear it, and then the target
\* is the landing point of the last such rock.
C6_RockDistracts == [][RockDistractsLastWins]_vars
\* Two rocks have landed in one frame next to the same dragon: both are
\* gone, and the dragon is distracted.
C6_Witness ==
  /\ TimesIn(out, "Dragon distracted!", 1) = 2
  /\ dragons[1].state = "distracted"
  /\ dragons[1].distraction_timer = now
  /\ dropped_rocks = <<>>

\* How many times the message m is listed in o.
Times(o, m) == Cardinality({k \in 1..Len(o) : o[k] = <<m>>})
SpawnedNow == Times(out', "All treasures collected! A Big Treasure appears!")
CollectedNow == Times(out', "Big Treasure collected! Score doubled for this level!")
\* The player's rectangle overlaps a square of 50 whose centerx and bottom
\* are those of the exit, as the scroll has left it.
OnBigTreasure ==
  LET e == levels[level_data + 1].exit_pos
      bx == e[1] - 25 + world_shift'
      by == e[2] - 50
      p == player'.rect
  IN  p.x < bx + 50 /\ bx < p.x + p.w /\ p.y < by + 50 /\ by < p.y + p.h
BigTreasureOnce ==
  FrameStep =>
    LET n == Len(levels[level_data + 1].treasures)
        gained == Cardinality(treasures \ treasures')
    IN  /\ SpawnedNow <= 1 /\ CollectedNow <= 1
        /\ SpawnedNow = 1 <=> (n > 0 /\ treasures' = {} /\ ~big_treasure_spawned)
        /\ big_treasure_spawned' = (big_treasure_spawned \/ SpawnedNow = 1)
        /\ CollectedNow = 1 <=> ((big_treasure_sprite \/ SpawnedNow = 1) /\ OnBigTreasure)
        /\ big_treasure_sprite' = ((big_treasure_sprite \/ SpawnedNow = 1) /\ CollectedNow = 0)
        /\ score' = IF CollectedNow = 1 THEN 2 * (score + gained) ELSE score + gained
        /\ treasures' \subseteq treasures
BigTreasureState ==
  /\ big_treasure_sprite => big_treasure_spawned
  /\ (big_treasure_spawned /\ pc = "run") =>
        (treasures = {} /\ Len(levels[level_data + 1].treasures) > 0)
  /\ (pc = "run" /\ ~big_treasure_spawned) =>
        score = Len(levels[level_data + 1].treasures) - Cardinality(treasures)
  /\ (pc = "run" /\ big_treasure_spawned) =>
        score = (IF big_treasure_sprite THEN 1 ELSE 2) * Len(levels[level_data + 1].treasures)
\* C7: in a level the BigTreasure appears at most once: in the frame at
\* whose end none of the N > 0 treasures of the level is left and it has
\* not yet appeared, and in no frame of a level without treasures; it lies
\* at the exit; the frame in which the player touches it doubles the level
\* score and removes it, and it does not appear again, so that the level
\* score is the number of treasures collected, doubled once the BigTreasure
\* has been collected.
C7_BigTreasureOnce == []BigTreasureState /\ [][BigTreasureOnce]_vars
\* The BigTreasure has just been collected: it is gone, and the level score
\* is twice the number of treasures.
C7_Witness ==
  /\ Times(out, "Big Treasure collected! Score doubled for this level!") = 1
  /\ big_treasure_spawned
  /\ ~big_treasure_sprite
  /\ score = 2 * Len(levels[level_data + 1].treasures)

\* The player's rectangle overlaps the rectangle of 40 by 60 whose centerx
\* and bottom are those of the exit, as the scroll has left it.
OnExit ==
  LET e == levels[level_data + 1].exit_pos
      ex == e[1] - 20 + world_shift'
      ey == e[2] - 60
      p == player'.rect
  IN  p.x < ex + 40 /\ ex < p.x + p.w /\ p.y < ey + 60 /\ ey < p.y + p.h
\* The level being played is the last of the catalog.
FinalLevel == level_data + 1 = Len(levels)
ExitOnFinalLevel ==
  (FrameStep /\ FinalLevel /\ OnExit) =>
    /\ state' = "game_won_all"
    /\ total_score' = total_score + score'
\* C8: a frame of the last level of the catalog in which the player
\* touches the exit leaves the state game_won_all, whatever else happens
\* in the frame, and the total score is then the sum of the scores of the
\* levels completed: the total before the frame and the score of this
\* level.
C8_AsStated == [][ExitOnFinalLevel]_vars

ExitOnOtherLevel ==
  (FrameStep /\ ~FinalLevel /\ OnExit) =>
    /\ state' = "level_complete"
    /\ ~playing' /\ pc' = "after"
    /\ total_score' = total_score + score'
    /\ current_level_index' = current_level_index + 1
    /\ current_level_index' = level_data + 1
\* A level is built: it is the first of the catalog after a game has
\* ended or at the start, and else the one after the level completed; its
\* score and world shift are 0 and its dragons sleep.
LevelLoaded ==
  (pc = "main" /\ pc' = "run") =>
    /\ level_data' = current_level_index
    /\ state = "level_complete" => level_data' = level_data + 1
    /\ score' = 0 /\ world_shift' = 0
    /\ \A i \in 1..Len(dragons') : dragons'[i].state = "sleeping"
\* C9: a frame of a level that is not the last in which the player touches
\* the exit ends the level loop with the state level_complete, adds the
\* score of the level to the total once and advances the level index by
\* one; the level built next is the one of that index, and it starts with
\* score 0, world shift 0 and sleeping dragons.
C9_AsStated == [][ExitOnOtherLevel]_vars /\ [][LevelLoaded]_vars

\* The player and the dragons lie within the level: the clamp that ends
\* the frame has moved none of them.
NoneClamped ==
  /\ player'.rect.x > 0
  /\ player'.rect.x + player'.rect.w < levels[level_data + 1].level_width
  /\ \A i \in 1..Len(dragons) : NotClamped(i)
\* The hitbox of the player overlaps that of a dragon that does not sleep.
TouchesActiveDragon ==
  \E i \in 1..Len(dragons) :
    /\ dragons'[i].state # "sleeping"
    /\ CollideRatio(player'.rect, dragons'[i].rect)
\* The hitbox of the player overlaps that of a fireball that its move of
\* the frame has left in the world, as the scroll has left it.
StruckByFireball ==
  \E k \in 1..Len(fireballs) :
    LET f == FireballMoved(fireballs[k])
    IN  /\ FireballAlive(f, Rect(0, 0, levels[level_data + 1].level_width, SCREEN_HEIGHT),
                         ObstacleRects(level_data, world_shift))
        /\ CollideRatio(player'.rect, MoveX(f.rect, world_shift' - world_shift))
PlayerDefeated ==
  (FrameStep /\ NoneClamped) =>
    /\ state' = "game_over_lose" <=> (TouchesActiveDragon \/ StruckByFireball)
    /\ state' = "game_over_lose" => (~playing' /\ pc' = "after")
    /\ Times(out', "Game Over!") = (IF state' = "game_over_lose" THEN 1 ELSE 0)
    /\ \A k \in 1..Len(fireballs') : ~CollideRatio(player'.rect, fireballs'[k].rect)
\* C10: a frame leaves the state game_over_lose, and ends the level loop,
\* if and only if the hitbox of the player overlaps, when the harm is
\* resolved, that of a dragon that does not sleep or that of a fireball; no
\* fireball that the player overlaps is left in the world, and a frame in
\* which the player overlaps none but sleeping dragons does not defeat the
\* player.  The state game_over_lose is entered by such a frame only.
C10_PlayerDefeated ==
  /\ [][PlayerDefeated]_vars
  /\ [][(state' = "game_over_lose" /\ state # "game_over_lose") => FrameStep]_vars
\* The player has just been defeated by a fireball alone: no dragon that
\* does not sleep touches the player, and the fireball is gone.
C10_Witness ==
  /\ Times(out, "Game Over!") = 1
  /\ state = "game_over_lose"
  /\ ~playing
  /\ \A i \in 1..Len(dragons) :
        dragons[i].state = "sleeping" \/ ~CollideRatio(player.rect, dragons[i].rect)
  /\ \A k \in 1..Len(fireballs) : ~CollideRatio(player.rect, fireballs[k].rect)

\* The end screen is left without quitting: the index and the total are
\* reset and the state is playing.
PlayAgain ==
  (pc = "wait" /\ pc' # "wait" /\ running') =>
    /\ state \in {"game_won_all", "game_over_lose"}
    /\ current_level_index' = 0
    /\ total_score' = 0
    /\ state' = "playing"
\* A level built when the state is playing is the first of the catalog,
\* and the total is 0.
FirstLevelLoaded ==
  (pc = "main" /\ pc' = "run" /\ state = "playing") =>
    /\ level_data' = 0
    /\ total_score' = 0
    /\ score' = 0
\* The main loop is about to build a level in the state playing.
AboutToStart == pc = "main" /\ running /\ state = "playing"
\* C11: when an end screen (of a defeat or of the whole catalog cleared) is
\* left without quitting, the level index and the total score are 0 and
\* the state is playing; the main loop is then about to build a level, and
\* the level it builds is the first of the catalog, with total score 0,
\* whatever level the game ended on.
C11_RestartFromLevelOne ==
  /\ [](AboutToStart => (current_level_index = 0 /\ total_score = 0))
  /\ [][PlayAgain]_vars
  /\ [][FirstLevelLoaded]_vars
\* The end screen of a game that ended on the second level has been left
\* without quitting: the main loop is about to build the first level.
C11_Witness ==
  /\ AboutToStart
  /\ level_data = 1
  /\ current_level_index = 0
  /\ total_score = 0

\* The window of the screen lies within the level.
ShiftInRange ==
  LET width == levels[level_data + 1].level_width
  IN  IF width > 800
      THEN -(width - 800) <= world_shift /\ world_shift <= 0
      ELSE world_shift = 0
\* The scroll of a frame is no more than the speed of the player, and no
\* more than 7.
ShiftBySpeed ==
  FrameStep =>
    /\ Abs(world_shift' - world_shift) <= 7
    /\ Abs(world_shift' - world_shift) * Q <= Abs(player'.vel.x)
\* C12: the world shift is always between -(level_width - SCREEN_WIDTH)
\* and 0 in a level wider than the screen and 0 in a level that is not,
\* and a frame changes it by no more than the horizontal speed of the
\* player, which is no more than 7.
C12_ShiftInRange == []ShiftInRange /\ [][ShiftBySpeed]_vars
\* In the level wider than the screen the player, having turned back, runs
\* to the left in the left third of the screen, and the world, which had
\* scrolled, is back at the left end of the level.
C12_Witness ==
  /\ pc = "run"
  /\ levels[level_data + 1].level_width > 800
  /\ world_shift = 0
  /\ player.vel.x < 0
  /\ CenterX(player.rect) + world_shift < SCROLL_THRESH

\* The rectangle is where the position vector puts it: the centre of the
\* rectangle is the vector, its floats truncated.
CentredOn(r, pos) ==
  /\ r.x + r.w \div 2 = Trunc(pos.x)
  /\ r.y + r.h \div 2 = Trunc(pos.y)
\* The position vector of the player is the middle of the bottom of its
\* rectangle.
PlayerInStep ==
  /\ player.pos.x = (player.rect.x + player.rect.w \div 2) * Q
  /\ player.pos.y = (player.rect.y + player.rect.h) * Q
DragonsInStep == \A i \in 1..Len(dragons) : CentredOn(dragons[i].rect, dragons[i].pos)
FireballsInStep == \A k \in 1..Len(fireballs) : CentredOn(fireballs[k].rect, fireballs[k].pos)
RocksInStep == \A k \in 1..Len(dropped_rocks) : CentredOn(dropped_rocks[k].rect, dropped_rocks[k].pos)
\* C13: after every frame of a level the rectangle of the player, of every
\* dragon, of every fireball and of every rock, a landed one too, agrees
\* with its position vector.
C13_AsStated ==
  (pc = "run" /\ now > 0) =>
    (PlayerInStep /\ DragonsInStep /\ FireballsInStep /\ RocksInStep)

\* The horizontal speed of the player is no more than 7, and so is the one
\* that Player.update gives it next, whatever arrow keys are held.
SpeedLimit ==
  /\ -7 * Q <= player.vel.x /\ player.vel.x <= 7 * Q
  /\ \A left, right \in BOOLEAN :
        LET vx == PlayerVelX(player.vel.x, left, right)
        IN  -7 * Q <= vx /\ vx <= 7 * Q
\* C14: after every Player.update the horizontal velocity of the player is
\* between -7 and 7, whatever the arrow keys held so far and in the
\* update.
C14_SpeedLimit == []SpeedLimit
\* The right arrow has been held for the 15 frames of the level: the speed
\* was 7 after 14, and the player, 49 from its start then, has moved by 7
\* more.
C14_Witness ==
  /\ pc = "run"
  /\ now = 15 * FrameMs
  /\ player.vel.x = 7 * Q
  /\ CenterX(player.rect) = SCREEN_WIDTH \div 4 + 49 + 7

\* No arrow key is held in the frame: it is past the frames in which one
\* may be.
NoKeyHeld == FrameStep /\ now >= PressFrames * FrameMs
\* Without a key held the player slows down, and stays at rest once at
\* rest.
SlowsDown ==
  NoKeyHeld =>
    \/ Abs(player'.vel.x) < Abs(player.vel.x)
    \/ player.vel.x = 0 /\ player'.vel.x = 0
\* 39 frames without a key held bring any speed up to 7 to 0, at the grain
\* of the arithmetic.
AtRestInTheEnd ==
  (pc = "run" /\ now >= (PressFrames + 39) * FrameMs) => player.vel.x = 0
\* C15: in the frames in which no arrow key is held the horizontal speed
\* of the player decreases, whatever speed up to 7 it had, until it is
\* exactly 0, which it is after a bounded number of frames, and it then
\* stays 0.
C15_CoastsToRest == [][SlowsDown]_vars /\ []AtRestInTheEnd
\* The player is at rest farther from its start than the keys alone take
\* it: it has let go of the right arrow at full speed and has coasted to
\* rest, and has rested for a frame.
C15_Witness ==
  /\ pc = "run"
  /\ player.vel.x = 0
  /\ CenterX(player.rect) >= SCREEN_WIDTH \div 4 + 49 + 40
  /\ now >= (14 + 39 + 1) * FrameMs

\* The player's rectangle overlaps the square of 20 whose centerx and
\* bottom are those of treasure k of the catalog, as the scroll has left
\* it.
OnTreasure(k) ==
  LET c == levels[level_data + 1].treasures[k]
      tx == c[1] - 10 + world_shift'
      ty == c[2] - 20
      p == player'.rect
  IN  p.x < tx + 20 /\ tx < p.x + p.w /\ p.y < ty + 20 /\ ty < p.y + p.h
PicksUp ==
  FrameStep =>
    /\ treasures' = {k \in treasures : ~OnTreasure(k)}
    /\ Times(out', "coin_sound") = Cardinality(treasures \ treasures') + CollectedNow
    /\ CollectedNow = 0 => score' = score + Cardinality(treasures \ treasures')
\* Until the BigTreasure is collected the score and the treasures left add
\* up to the treasures of the catalog.
ScoreCountsTreasures ==
  (pc = "run" /\ (~big_treasure_spawned \/ big_treasure_sprite)) =>
    /\ treasures \subseteq 1..Len(levels[level_data + 1].treasures)
    /\ score + Cardinality(treasures) = Len(levels[level_data + 1].treasures)
\* C16: a frame removes the treasures of the level that the player
\* overlaps and no other, none comes back, and each removal adds 1 to the
\* level score: until the BigTreasure is collected, the level score plus
\* the number of treasures left is the number of treasures of the catalog.
C16_ScoreCountsTreasures == []ScoreCountsTreasures /\ [][PicksUp]_vars
\* The three treasures of the level have been collected, and the
\* BigTreasure waits at the exit.
C16_Witness ==
  /\ pc = "run"
  /\ Len(levels[level_data + 1].treasures) = 3
  /\ treasures = {}
  /\ score = 3
  /\ big_treasure_sprite

\* What Game.new has to do with the dragons of the level it builds.
Built == pc = "main" /\ pc' = "run"
\* Dragon i of the new level stands at the point at: centred on its x, its
\* bottom on its y, asleep.
SpawnedAt(i, at) ==
  /\ CenterX(dragons'[i].rect) = at[1]
  /\ Bottom(dragons'[i].rect) = at[2]
\* The catalog points of the new level at or past 25% of its width, in
\* catalog order.
UsablePoints ==
  LET all == Level(level_data').dragons_start
  IN  SelectSeq(all, LAMBDA at : 4 * at[1] >= LevelWidth(level_data'))
EarlyPoints ==
  LET all == Level(level_data').dragons_start
  IN  {at \in {all[j] : j \in 1..Len(all)} : 4 * at[1] < LevelWidth(level_data')}
DragonsPlaced ==
  Built =>
    /\ Len(dragons') = num_selected_dragons
    /\ \A i \in 1..Len(dragons') :
         /\ i <= Len(UsablePoints) => SpawnedAt(i, UsablePoints[i])
         /\ \A at \in EarlyPoints : ~SpawnedAt(i, at)
         /\ 4 * CenterX(dragons'[i].rect) >= LevelWidth(level_data')
\* C17: for every level of LEVELS and every requested number of dragons from
\* 1 to 5, Game.new creates exactly that many dragons, uses the catalog
\* points at or past 25% of the level width first and in catalog order,
\* never uses a catalog point before the 25% mark, and puts every dragon
\* at an x at or past 25% of the level width.
C17_DragonsPlaced == [][DragonsPlaced]_vars
\* Five dragons were asked for on the ninth level, which has one catalog
\* point at x = 1700 and one before the 25% mark (at x = 300): the first
\* dragon is at the catalog point and the others are on platform tops.
C17_Witness ==
  /\ pc = "run"
  /\ now = 0
  /\ level_data = 8
  /\ Len(dragons) = 5
  /\ CenterX(dragons[1].rect) = 1700
  /\ \A i \in 2..5, j \in 1..Len(Level(8).dragons_start) :
       <<CenterX(dragons[i].rect), Bottom(dragons[i].rect)>> # Level(8).dragons_start[j]

\* The frame leaves the player as Player.update and the clamp of
\* Game.update make it of the player the frame began with, whatever arrow
\* keys are held, and whether a rock was dropped or not.
PlayerAsWithoutJump ==
  \E left \in BOOLEAN, right \in BOOLEAN, p \in {player, DropRock(player, now').p} :
    player' = Clamped(PlayerUpdate(p, left, right, PlatformRects(level_data, world_shift),
                                   LevelWidth(level_data)),
                      LevelWidth(level_data))
\* The frame began with a jump: the update added one frame of gravity to
\* the velocity that jump sets.
JumpedNow == player'.vel.y = -(PLAYER_JUMP_POWER * Q) + PLAYER_GRAVITY
JumpOnlyFromSupport ==
  FrameStep =>
    /\ JumpedNow => ~InTheAir
    /\ InTheAir => PlayerAsWithoutJump
\* C18: jump sets the vertical velocity to -15 only if the player's
\* rectangle moved one pixel down meets a platform or an obstacle;
\* otherwise it changes nothing, so that a frame in which a jump is asked
\* for while the player is in the air leaves the player (velocity,
\* position, rectangle) as the frame would without the request.
C18_JumpOnlyFromSupport == [][JumpOnlyFromSupport]_vars
\* The player has jumped from the ledge and is rising, in the air, where
\* a jump can be asked for again.
C18_Witness ==
  /\ pc = "run"
  /\ InTheAir
  /\ player.vel.y < 0
  /\ player.vel.y > -(PLAYER_JUMP_POWER * Q) + PLAYER_GRAVITY

\* drop_rock restarts the cooldown timer in this step.
DropsNow == player'.last_rock_drop # player.last_rock_drop
\* At the clock of this frame, no more than rock_cooldown has passed since
\* the timer was set.
CoolingDown == now' - player.last_rock_drop <= ROCK_COOLDOWN
\* A rock created where the player is when the frame begins, after the
\* update and the scroll of that frame.
FreshRock ==
  Shifted(RockUpdate(NewRock(CenterX(player.rect), CenterY(player.rect)),
                     PlatformRects(level_data, world_shift)).r,
          world_shift' - world_shift)
\* Every rock the frame leaves is a rock the frame began with, after its
\* update and the scroll of the frame.
NoNewRock ==
  /\ Len(dropped_rocks') <= Len(dropped_rocks)
  /\ \A m \in 1..Len(dropped_rocks') : \E k \in 1..Len(dropped_rocks) :
       dropped_rocks'[m] = Shifted(RockAfterUpdate(k).r, world_shift' - world_shift)
DropAfterCooldown ==
  FrameStep =>
    /\ DropsNow =>
         /\ ~CoolingDown
         /\ player'.last_rock_drop = now'
         /\ dropped_rocks' # <<>>
         /\ dropped_rocks'[Len(dropped_rocks')] = FreshRock
    /\ ~DropsNow => NoNewRock
    /\ CoolingDown => ~DropsNow
\* The timer is set by a drop, and by the creation of the player.
TimerSetByDrop == DropsNow => (FrameStep \/ Built)
\* Two rocks in flight: the one created first has fallen for more than
\* rock_cooldown longer, a flying rock gaining DROPPED_ROCK_GRAVITY a frame.
RocksApart ==
  \A i \in 1..Len(dropped_rocks), j \in 1..Len(dropped_rocks) :
    (i < j /\ ~dropped_rocks[i].landed /\ ~dropped_rocks[j].landed) =>
      (dropped_rocks[i].vel_y - dropped_rocks[j].vel_y) * FrameMs
        > ROCK_COOLDOWN * DROPPED_ROCK_GRAVITY
\* C19: drop_rock creates a DroppedRock where the player is only when more
\* than 1000 ms have passed since the last drop that succeeded, or since
\* the player was created; a call during the cooldown creates no rock and
\* leaves the cooldown timer as it is, so that any two rocks of a level
\* are created more than 1000 ms apart.
C19_DropAfterCooldown ==
  [][DropAfterCooldown]_vars /\ [][TimerSetByDrop]_vars /\ []RocksApart
\* Two rocks of one level are in flight, the second dropped after the
\* cooldown of the first.
C19_Witness ==
  /\ pc = "run"
  /\ Len(dropped_rocks) = 2
  /\ ~dropped_rocks[1].landed
  /\ ~dropped_rocks[2].landed
  /\ player.last_rock_drop > ROCK_COOLDOWN

\* What get_distracted makes of dragon i when it is called now with the
\* place of the player as the target.
DistractedHere(i) == GetDistracted(dragons[i], i, player.pos, now).d
\* get_distracted, as a call on every dragon of every state reached.
GetDistractedCall ==
  pc = "run" =>
    \A i \in 1..Len(dragons) :
      IF dragons[i].state = "sleeping"
      THEN DistractedHere(i) = dragons[i]
      ELSE /\ DistractedHere(i).state = "distracted"
           /\ DistractedHere(i).distraction_target = <<player.pos>>
           /\ DistractedHere(i).distraction_timer = now
           /\ DistractedHere(i).pos = dragons[i].pos
           /\ DistractedHere(i).rect = dragons[i].rect
           /\ DistractedHere(i).last_fireball = dragons[i].last_fireball
\* get_distracted, as Game.update calls it: the dragon it distracts ends
\* the frame distracted, the timer at the clock and the target the landing
\* point of a rock of this frame; a dragon asleep before and after the
\* frame was not distracted, and keeps its target and its timers.
GetDistractedInFrame ==
  FrameStep =>
    \A i \in 1..Len(dragons) :
      /\ SaidOfIn(out', "Dragon distracted!", i) =>
           /\ dragons[i].state # "sleeping" \/ SaidOfIn(out', "dragon_roar_sound", i)
           /\ dragons'[i].state = "distracted"
           /\ dragons'[i].distraction_timer = now'
           /\ \E k \in LandingNow : dragons'[i].distraction_target = <<LandingPoint(k)>>
      /\ SleepsThrough(i) =>
           /\ ~SaidOfIn(out', "Dragon distracted!", i)
           /\ dragons'[i].distraction_target = dragons[i].distraction_target
           /\ dragons'[i].distraction_timer = dragons[i].distraction_timer
           /\ dragons'[i].last_fireball = dragons[i].last_fireball
\* C20: get_distracted on a sleeping dragon changes nothing (state, target
\* and timers stay); on a chasing or distracted dragon it leaves the dragon
\* distracted, with the new target in the place of any earlier one and
\* the distraction timer restarted.
C20_GetDistracted == []GetDistractedCall /\ [][GetDistractedInFrame]_vars
\* A rock has just distracted a dragon: the dragon has the landing point
\* of the rock, on the ground, for its target and the clock for its
\* distraction timer, and a call with another target would replace both.
C20_Witness ==
  \E i \in 1..Len(dragons) :
    /\ SaidOf("Dragon distracted!", i)
    /\ dragons[i].state = "distracted"
    /\ dragons[i].distraction_timer = now
    /\ dragons[i].distraction_target # None
    /\ dragons[i].distraction_target[1].y = GROUND_LEVEL * Q
    /\ dragons[i].distraction_target # <<player.pos>>

\* What wake_up makes of dragon i when it is called at the clock t.
WokenAt(i, t) == WakeUp(dragons[i], i, t).d
\* wake_up, as a call on every dragon of every state reached: a dragon that
\* does not sleep is left as it is, in silence, and a second call, now or
\* a frame later, leaves a dragon as the first call made it.
WakeUpCall ==
  pc = "run" =>
    \A i \in 1..Len(dragons) :
      /\ dragons[i].state # "sleeping" =>
           /\ WokenAt(i, now) = dragons[i]
           /\ WakeUp(dragons[i], i, now).out = <<>>
      /\ dragons[i].state = "sleeping" =>
           /\ WokenAt(i, now).state = "chasing"
           /\ \A t \in {now, now + FrameMs} :
                 WakeUp(WokenAt(i, now), i, t).d = WokenAt(i, now)
\* wake_up, as a frame calls it: a dragon that does not sleep when the frame
\* begins does not roar in it, and no dragon roars twice in a frame.
WakeUpInFrame ==
  FrameStep =>
    \A i \in 1..Len(dragons) :
      /\ dragons[i].state # "sleeping" => ~SaidOfIn(out', "dragon_roar_sound", i)
      /\ TimesIn(out', "dragon_roar_sound", i) <= 1
      /\ dragons[i].state = "sleeping" /\ SaidOfIn(out', "dragon_roar_sound", i) =>
           dragons'[i].state # "sleeping" /\ dragons'[i].last_fireball = now'
\* C21: wake_up is idempotent, and does nothing unless the dragon sleeps:
\* on a chasing or a distracted dragon it changes neither the state, nor the
\* distraction target, nor the fireball timer, and two calls on a sleeping
\* dragon leave what one call leaves.
C21_WakeUpOnce == []WakeUpCall /\ [][WakeUpInFrame]_vars
\* One dragon has just been woken and roared, while another one, awake
\* since an earlier frame, kept its fireball timer.
C21_Witness ==
  \E i \in 1..Len(dragons), j \in 1..Len(dragons) :
    /\ pc = "run"
    /\ SaidOf("dragon_roar_sound", i)
    /\ dragons[i].state = "chasing"
    /\ dragons[i].last_fireball = now
    /\ dragons[j].state # "sleeping"
    /\ dragons[j].last_fireball < now

\* A quit has been asked for: the window was closed or the quit key used.
QuitRequested == ~running
\* After a quit no level is built, no frame is played, no screen waits for a
\* key, and nothing asks to run again.
NothingAfterQuit ==
  QuitRequested =>
    /\ ~running'
    /\ pc' \notin {"start", "run", "wait"}
    /\ UNCHANGED levelVars
    /\ UNCHANGED <<state, total_score, current_level_index>>
\* The level loop has ended as soon as a quit is asked for.
LevelLoopEnded == QuitRequested => (~playing /\ pc \in {"main", "after", "quit"})
\* C22: once a quit is asked for, on the start screen, in a level or on an end
\* screen, no further level is loaded, no further wait for a key begins,
\* and the level loop and the main loop both end.
C22_QuitEndsAll ==
  /\ [][NothingAfterQuit]_vars
  /\ []LevelLoopEnded
  /\ (QuitRequested ~> pc = "quit")
\* The program has ended after a quit asked for in the frame in which the
\* player was defeated, or on the end screen that followed.
C22_Witness == pc = "quit" /\ QuitRequested /\ state = "game_over_lose"

---------------------------------------------------------------------------
(* The rocks that have landed (lines 871-898, 1225-1244, 1249-1257).       *)

\* The rocks of the sequence that have landed.
AtRest(rocks) == {m \in 1..Len(rocks) : rocks[m].landed}
\* C24 as it is stated: every rock that lands is destroyed in the tick in
\* which it lands, whether a dragon heard it or not, so that no rock that
\* has landed is in the world at the end of a tick.
C24_AsStated == pc = "run" => AtRest(dropped_rocks) = {}
\* The points where a rock rests before or after the frame, or lands in it.
RockPoints ==
  {dropped_rocks[m].land_pos[1] : m \in AtRest(dropped_rocks)}
    \cup {dropped_rocks'[m].land_pos[1] : m \in AtRest(dropped_rocks')}
    \cup {LandingPoint(k) : k \in LandingNow}
\* The rocks that land at the point L in the frame and are heard by no
\* dragon.
UnheardAt(L) == {k \in LandingNow : LandingPoint(k) = L /\ Hearing(k) = {}}
\* A rock that lands is heard in that frame or never: the rocks at rest
\* after the frame are those at rest before it and those that landed in it
\* unheard, and a dragon is distracted once for each rock landing in the
\* frame that it is the first to hear.
LandedRockProcessedOnce ==
  FrameStep =>
    /\ \A L \in RockPoints :
         RestingAt(dropped_rocks', L) = RestingAt(dropped_rocks, L) + Cardinality(UnheardAt(L))
    /\ \A i \in 1..Len(dragons) :
         TimesIn(out', "Dragon distracted!", i)
           = Cardinality({k \in LandingNow : Hearing(k) # {} /\ FirstHearing(k) = i})
    /\ newly_landed_rocks' = <<>>
\* C24, amended: every rock that lands is processed for distraction once, in
\* the tick in which it lands; that processing destroys it if a dragon that
\* does not sleep is within hearing radius of the landing point, and
\* otherwise the rock stays in the world, at rest, and is not processed
\* again.
C24_LandedRockProcessedOnce == [][LandedRockProcessedOnce]_vars
\* A rock rests where it landed unheard, and a chasing dragon has since
\* come within hearing radius of that point without being distracted.
C24_Witness ==
  /\ pc = "run"
  /\ \E m \in AtRest(dropped_rocks) : \E i \in 1..Len(dragons) :
       /\ dragons[i].state = "chasing"
       /\ dragons[i].distraction_timer = 0
       /\ DistLess(dropped_rocks[m].land_pos[1], dragons[i].pos, LAND_SOUND_RADIUS)


\* newly_landed_rocks as the sprite update of the frame leaves it, before
\* the rocks in it are looked at; the dragons and the fireballs have no
\* part in it.
ListAfterUpdate ==
  UpdateSprites([Game EXCEPT !.dragons = <<>>, !.fireballs = <<>>],
                FALSE, FALSE, level_data, now').newly_landed_rocks
\* How many times the rock k is in the list.
TimesListed(list, k) == Cardinality({m \in 1..Len(list) : list[m] = k})
\* A rock at rest has a landing point, the one its rectangle stands on, and
\* no speed; a rock that has not landed has no landing point.
LandedFlagAndPoint ==
  \A m \in 1..Len(dropped_rocks) :
    IF dropped_rocks[m].landed
    THEN /\ dropped_rocks[m].land_pos # None
         /\ dropped_rocks[m].land_pos[1].y = Bottom(dropped_rocks[m].rect) * Q
         /\ dropped_rocks[m].vel_y = 0
    ELSE dropped_rocks[m].land_pos = None
\* The list of newly landed rocks is empty between two ticks, and so at the
\* start of a level.
ListEmptyBetweenTicks == newly_landed_rocks = <<>>
\* A rock at rest stays in the world at rest, with the landing point it has
\* and where it is but for the scroll; the rocks at rest after the frame
\* are those and the ones that landed in it; a rock is put on the list once
\* in the frame in which it lands, and not when it is at rest.
LandedIsTerminal ==
  FrameStep =>
    /\ \A k \in AtRest(dropped_rocks) :
         /\ k \notin LandingNow
         /\ RockAfterUpdate(k).r = dropped_rocks[k]
         /\ \E m \in AtRest(dropped_rocks') :
              /\ m <= k
              /\ dropped_rocks'[m].land_pos = dropped_rocks[k].land_pos
              /\ dropped_rocks'[m].rect
                   = MoveX(dropped_rocks[k].rect, world_shift' - world_shift)
    /\ \A L \in RockPoints :
         /\ RestingAt(dropped_rocks', L) >= RestingAt(dropped_rocks, L)
         /\ RestingAt(dropped_rocks', L)
              <= RestingAt(dropped_rocks, L)
                   + Cardinality({k \in LandingNow : LandingPoint(k) = L})
    /\ LET list == ListAfterUpdate
       IN  /\ \A k \in 1..Len(dropped_rocks) :
                TimesListed(list, k) = IF k \in LandingNow THEN 1 ELSE 0
           /\ \A m \in 1..Len(list) : list[m] \in LandingNow
\* C25: the landed flag of a rock is set at most once and never cleared,
\* the landing point is recorded at that moment and not changed afterwards,
\* the rock is put on the list of newly landed rocks once, and that list is
\* empty at the end of every tick and at the start of every level.
C25_LandedIsTerminal ==
  /\ []LandedFlagAndPoint
  /\ []ListEmptyBetweenTicks
  /\ [][LandedIsTerminal]_vars
\* One rock rests where it landed while a rock dropped later is still
\* falling.
C25_Witness ==
  /\ pc = "run"
  /\ \E m \in AtRest(dropped_rocks) : \E k \in 1..Len(dropped_rocks) :
       /\ m < k
       /\ ~dropped_rocks[k].landed
       /\ dropped_rocks[k].vel_y > DROPPED_ROCK_GRAVITY


---------------------------------------------------------------------------
(* The noise of a pickup (lines 1157-1174).                                *)

\* The noise of a treasure woke dragon i in the frame.
NoiseWoke(i) == SaidOfIn(out', "Treasure collection noise woke a dragon!", i)
\* Where dragon i, asleep through the sprite update, is when the treasures
\* are looked at: where it was, but for the scroll.
PosAtPickup(i) ==
  [dragons[i].pos EXCEPT !.x = dragons[i].pos.x + (world_shift' - world_shift) * Q]
\* A rock landing in the frame distracts dragon i.
DistractedNow(i) == SaidOfIn(out', "Dragon distracted!", i)
\* The noise wakes a dragon only in a frame with a pickup, only if the
\* dragon slept through its own update, and only nearer than 1.5 times
\* DRAGON_WAKE_RANGE; the dragon it wakes roars once and has its fireball
\* timer set to the clock.  A sleeping dragon at that distance or farther
\* sleeps on, and a dragon that does not sleep when the frame begins ends it
\* as its own update and the rocks leave it.
NoiseWakesSleepersInRange ==
  FrameStep =>
    \A i \in 1..Len(dragons) :
      /\ NoiseWoke(i) =>
           /\ treasures' # treasures
           /\ dragons[i].state = "sleeping"
           /\ ~SeesPlayer(i)
           /\ DistLess(player'.pos, PosAtPickup(i), 225)
           /\ TimesIn(out', "Treasure collection noise woke a dragon!", i) = 1
           /\ TimesIn(out', "dragon_roar_sound", i) = 1
           /\ dragons'[i].state = IF DistractedNow(i) THEN "distracted" ELSE "chasing"
           /\ dragons'[i].last_fireball = now'
      /\ (dragons[i].state = "sleeping" /\ ~DistLess(player'.pos, PosAtPickup(i), 225)) =>
           /\ ~NoiseWoke(i)
           /\ dragons'[i].state = "sleeping"
      /\ dragons[i].state # "sleeping" =>
           /\ ~NoiseWoke(i)
           /\ LET d == DragonUpdate(dragons[i], i, player'.pos, now').d
              IN  /\ dragons'[i].last_fireball = d.last_fireball
                  /\ IF DistractedNow(i)
                     THEN /\ dragons'[i].state = "distracted"
                          /\ dragons'[i].distraction_timer = now'
                     ELSE /\ dragons'[i].state = d.state
                          /\ dragons'[i].distraction_timer = d.distraction_timer
                          /\ dragons'[i].distraction_target = d.distraction_target
\* C26: the pickup of a treasure wakes only dragons that sleep and are
\* nearer than 225 to the player: a sleeping dragon at 225 or farther is not
\* woken by it, the state of a chasing or distracted dragon is not changed
\* by it, and one pickup may wake several sleeping dragons.
C26_NoiseWakesSleepersInRange == [][NoiseWakesSleepersInRange]_vars
\* One treasure has been picked up, and its noise woke two dragons.
C26_Witness ==
  /\ Times(out, "coin_sound") = 1
  /\ ~Said("Big Treasure collected! Score doubled for this level!")
  /\ \E i, j \in 1..Len(dragons) :
       /\ i # j
       /\ TimesIn(out, "Treasure collection noise woke a dragon!", i) = 1
       /\ TimesIn(out, "Treasure collection noise woke a dragon!", j) = 1
       /\ dragons[i].state = "chasing"
       /\ dragons[j].state = "chasing"


---------------------------------------------------------------------------
(* The scroll step (lines 1123-1150).                                      *)

\* The scroll of the frame: the change of world_shift.
ScrollOfFrame == world_shift' - world_shift
\* Dragon i and the fireballs it adds, as its own update leaves them.
DragonAfterUpdate(i) == DragonUpdate(dragons[i], i, player'.pos, now')
\* A frame leaves every sprite but the player where its own update puts it,
\* moved along x by the scroll of the frame, rectangle and position vector
\* alike (a dragon is then kept inside the level); the player is where its
\* own update puts it.
ScrollShiftsAll ==
  FrameStep =>
    LET d == ScrollOfFrame
        width == LevelWidth(level_data)
    IN  /\ PlayerAsWithoutJump \/ JumpedNow
        /\ \A i \in 1..Len(dragons) :
             LET du == DragonAfterUpdate(i).d
             IN  /\ dragons'[i].rect = ScrolledRect(du.rect, d, width)
                 /\ dragons'[i].pos = ScrolledPos(du.rect, du.pos, d, width)
        /\ \A m \in 1..Len(fireballs') :
             \/ \E k \in 1..Len(fireballs) :
                  fireballs'[m] = Shifted(FireballMoved(fireballs[k]), d)
             \/ \E i \in 1..Len(dragons) :
                  \E n \in 1..Len(DragonAfterUpdate(i).fireballs) :
                    fireballs'[m] = Shifted(DragonAfterUpdate(i).fireballs[n], d)
        /\ \A m \in 1..Len(dropped_rocks') :
             \/ \E k \in 1..Len(dropped_rocks) :
                  dropped_rocks'[m] = Shifted(RockAfterUpdate(k).r, d)
             \/ dropped_rocks'[m] = FreshRock
        /\ \A k \in 1..Len(Level(level_data).platforms) :
             PlatformRect(Level(level_data).platforms[k], world_shift')
               = MoveX(PlatformRect(Level(level_data).platforms[k], world_shift), d)
        /\ ExitRect(level_data, world_shift') = MoveX(ExitRect(level_data, world_shift), d)
        /\ \A i, j \in 1..Len(dragons) :
             (NotClamped(i) /\ NotClamped(j)) =>
               dragons'[i].pos.x - dragons'[j].pos.x
                 = DragonAfterUpdate(i).d.pos.x - DragonAfterUpdate(j).d.pos.x
        /\ \A i \in 1..Len(dragons) : \A m \in 1..Len(dropped_rocks') :
             \A k \in 1..Len(dropped_rocks) :
               (NotClamped(i) /\ dropped_rocks'[m] = Shifted(RockAfterUpdate(k).r, d)) =>
                 dragons'[i].rect.x - dropped_rocks'[m].rect.x
                   = DragonAfterUpdate(i).d.rect.x - RockAfterUpdate(k).r.rect.x
\* C27: in every tick the scroll step moves the x of every sprite but the
\* player, rectangle and position vector, by one amount, the change of
\* world_shift in the tick, and leaves the player where it is; so the
\* horizontal offsets between sprites other than the player are what they
\* were before the scroll step.
C27_ScrollShiftsAll == [][ScrollShiftsAll]_vars
\* The scroll holds the running player at the threshold, and has moved the
\* world under a dragon on the move, a fireball in flight and a rock in the
\* air.
C27_Witness ==
  /\ pc = "run"
  /\ world_shift < 0
  /\ world_shift > -(LevelWidth(level_data) - SCREEN_WIDTH)
  /\ player.vel.x > 0
  /\ CenterX(player.rect) + world_shift >= SCREEN_WIDTH - SCROLL_THRESH
  /\ \E i \in 1..Len(dragons) : dragons[i].state = "chasing"
  /\ fireballs # <<>>
  /\ \E k \in 1..Len(dropped_rocks) : ~dropped_rocks[k].landed /\ dropped_rocks[k].vel_y > DROPPED_ROCK_GRAVITY


---------------------------------------------------------------------------
(* The order of the rules of Game.update (lines 1156-1244).                *)

\* The rule of Game.update that adds entry a to what the frame says: 1 the
\* pickups, 2 the BigTreasure appearing, 3 its collection, 4 the exit, 5 the
\* harm, 6 the rocks that landed; 0 for what the sprites say in their own
\* updates or in a wake_up.
RuleOf(o, a) ==
  IF o[a] = <<"coin_sound">>
  THEN IF a < Len(o) /\ o[a + 1] = <<"Big Treasure collected! Score doubled for this level!">>
       THEN 3 ELSE 1
  ELSE IF o[a][1] = "Treasure collection noise woke a dragon!" THEN 1
  ELSE IF o[a][1] = "All treasures collected! A Big Treasure appears!" THEN 2
  ELSE IF o[a][1] = "Big Treasure collected! Score doubled for this level!" THEN 3
  ELSE IF o[a][1] = "Level Complete!" THEN 4
  ELSE IF o[a][1] = "Game Over!" THEN 5
  ELSE IF o[a][1] = "Dragon distracted!" THEN 6
  ELSE 0
\* The BigTreasure lies at the exit when the frame looks for it: it lay
\* there before the frame, or the frame collects the last treasure.
BigTreasureLive ==
  \/ big_treasure_sprite
  \/ /\ ~big_treasure_spawned
     /\ treasures' = {}
     /\ Len(levels[level_data + 1].treasures) > 0
\* What the frame says is said in the order of the rules; a frame in which
\* the player touches the exit adds to the total the level score with the
\* pickups of the frame, and doubled if the player touches a BigTreasure too.
RulesInOrder ==
  FrameStep =>
    LET gained == Cardinality(treasures \ treasures')
    IN  /\ \A a, b \in 1..Len(out') :
             (a < b /\ RuleOf(out', a) > 0 /\ RuleOf(out', b) > 0) =>
               RuleOf(out', a) <= RuleOf(out', b)
        /\ (OnExit /\ BigTreasureLive /\ OnBigTreasure) =>
             /\ score' = 2 * (score + gained)
             /\ total_score' = total_score + 2 * (score + gained)
        /\ (OnExit /\ ~BigTreasureLive) =>
             /\ score' = score + gained
             /\ total_score' = total_score + score + gained
        /\ ~OnExit => total_score' = total_score
\* C28: the rules of a tick run in the order pickups, BigTreasure
\* appearing, BigTreasure collected, exit, harm, rocks: in a tick in which
\* the player touches a BigTreasure and the exit, also one in which the last
\* treasure is collected at the exit, the level score is doubled before it
\* is added to the total.
C28_RulesInOrder == [][RulesInOrder]_vars
\* The player has run into the BigTreasure and the exit of the second level
\* in one frame, after collecting the only treasure of the first level at
\* its exit: each level gave twice its one treasure.
C28_Witness ==
  /\ state = "game_won_all"
  /\ total_score = 4
  /\ score = 2
  /\ Said("Big Treasure collected! Score doubled for this level!")
  /\ ~Said("All treasures collected! A Big Treasure appears!")
  /\ SaidOf("Level Complete!", 2)


---------------------------------------------------------------------------
(* Which dragon a rock distracts (lines 1225-1241).                        *)

\* Dragon i does not sleep when the rocks that landed are looked at: it was
\* awake when the frame began, or its update or the noise of a treasure woke
\* it in the frame.
AwakeAtLanding(i) == dragons[i].state # "sleeping" \/ SeesPlayer(i) \/ NoiseWoke(i)
\* Where dragon i is then: where its update put it, moved by the scroll.
PosAtLanding(i) ==
  [DragonAfterUpdate(i).d.pos EXCEPT
     !.x = DragonAfterUpdate(i).d.pos.x + ScrollOfFrame * Q]
\* The dragons in range of the point where rock k lands, and those of them
\* that do not sleep.
InRange(k) ==
  {i \in 1..Len(dragons) : DistLess(LandingPoint(k), PosAtLanding(i), LAND_SOUND_RADIUS)}
Hearers(k) == {i \in InRange(k) : AwakeAtLanding(i)}
\* The rocks landing in the frame of which dragon i is the first hearer.
RocksFor(i) ==
  {k \in LandingNow : i \in Hearers(k) /\ \A j \in Hearers(k) : i <= j}
\* Each rock that lands distracts the first of its hearers and no other
\* dragon: a dragon is distracted once for every rock it is the first to
\* hear, and ends the frame distracted with one of them as its target; a
\* dragon that sleeps when the rocks are looked at sleeps on, whatever lands
\* next to it; and any other dragon is left as its update (or a wake-up)
\* left it.
RockDistractsFirstHearer ==
  FrameStep =>
    \A i \in 1..Len(dragons) :
      /\ TimesIn(out', "Dragon distracted!", i) = Cardinality(RocksFor(i))
      /\ RocksFor(i) # {} =>
           /\ dragons'[i].state = "distracted"
           /\ dragons'[i].distraction_timer = now'
           /\ \E k \in RocksFor(i) : dragons'[i].distraction_target = <<LandingPoint(k)>>
      /\ ~AwakeAtLanding(i) =>
           /\ dragons'[i].state = "sleeping"
           /\ dragons'[i].distraction_target = dragons[i].distraction_target
           /\ dragons'[i].distraction_timer = dragons[i].distraction_timer
           /\ dragons'[i].last_fireball = dragons[i].last_fireball
      /\ (AwakeAtLanding(i) /\ RocksFor(i) = {}) =>
           /\ dragons'[i].state = IF dragons[i].state = "sleeping" THEN "chasing"
                                  ELSE DragonAfterUpdate(i).d.state
           /\ dragons'[i].distraction_target = DragonAfterUpdate(i).d.distraction_target
           /\ dragons'[i].distraction_timer = DragonAfterUpdate(i).d.distraction_timer
\* C29: a rock that has landed distracts at most one dragon, the first one
\* in the order of the dragons that does not sleep and is nearer than 100 to
\* the landing point; a sleeping dragon is passed over, and is neither woken
\* nor distracted by the rock; the other dragons in range keep their state.
C29_RockDistractsFirstHearer == [][RockDistractsFirstHearer]_vars
\* A rock has landed next to both dragons: the first one slept on, and the
\* second one is distracted.
C29_Witness ==
  /\ Len(dragons) = 2
  /\ dragons[1].state = "sleeping"
  /\ dragons[2].state = "distracted"
  /\ dragons[2].distraction_timer = now
  /\ TimesIn(out, "Dragon distracted!", 2) = 1
  /\ DistLess(dragons[2].distraction_target[1], dragons[1].pos, LAND_SOUND_RADIUS)


---------------------------------------------------------------------------
(* The bounds of the level (lines 653-662 and 1260-1265).                  *)

\* Rectangle r lies, from its left edge to its right edge, within the level.
WithinLevel(r) ==
  /\ r.x >= 0
  /\ r.x + r.w <= levels[level_data + 1].level_width
\* A frame leaves the player and every dragon within the level.
InsideAfterTick ==
  FrameStep =>
    /\ WithinLevel(player'.rect)
    /\ \A i \in 1..Len(dragons') : WithinLevel(dragons'[i].rect)
\* C30: when a tick ends, the rectangle of the player and the rectangle of
\* every dragon lie between 0 and level_width from left to right, whatever
\* the keys, the chases, the distractions and the scrolls have been.
C30_InsideAfterTick == [][InsideAfterTick]_vars
\* The scroll has carried a sleeping dragon past the left edge, and the
\* dragon has been put back at the edge.
C30_Witness ==
  /\ pc = "run"
  /\ Len(dragons) >= 1
  /\ dragons[1].state = "sleeping"
  /\ levels[level_data + 1].dragons_start[1][1] - dragons[1].rect.w \div 2 + world_shift < 0
  /\ dragons[1].rect.x = 0
  /\ dragons[1].pos.x = (dragons[1].rect.w \div 2) * Q


---------------------------------------------------------------------------
(* The shot that has no direction (lines 762-772).                         *)

\* The last update of dragon i skipped a shot that was due: the dragon
\* chases, its fire timer was set in that update, and the update printed
\* and played nothing (a wake-up roars, and a shot is listed).
SkippedShot(i) ==
  /\ dragons[i].state = "chasing"
  /\ dragons[i].last_fireball = now
  /\ out = <<>>
\* The direction from dragon i, as its update has moved it, to the player.
FireDirection(i) == VSub(player'.pos, dragons'[i].pos)
\* A chasing dragon whose shot is due and has no direction fires nothing in
\* that update, and a dragon whose shot was skipped fires in the next
\* update, if the shot has a direction then.
SkipsForThatTickOnly ==
  FrameStep =>
    \A i \in 1..Len(dragons) :
      dragons[i].state = "chasing" =>
        /\ (now' - dragons[i].last_fireball > FireIntervalMs /\ ~NonZero(FireDirection(i))) =>
             /\ ~SaidOfIn(out', "Fireball", i)
             /\ fireballs' = fireballs
        /\ (SkippedShot(i) /\ NonZero(FireDirection(i))) =>
             SaidOfIn(out', "Fireball", i)
---------------------------------------------------------------------------
(* The floor under the ground (lines 663-668).                             *)

\* The player as the moves of Player.update leave it, before the bounds are
\* looked at: p is the player the update begins with.
BeforeBounds(p, left, right) ==
  LET plats == PlatformRects(level_data, world_shift)
      p1 == [p EXCEPT !.vel = Vec(PlayerVelX(p.vel.x, left, right), p.vel.y + PLAYER_GRAVITY)]
  IN  PlayerMoveY(PlayerMoveX(p1, plats), plats)
\* The players a frame may hand to Player.update: the events of the frame
\* have let the player jump or drop a rock, or have done nothing.
AfterEvents ==
  {player, Jump(player, PlatformRects(level_data, world_shift)), DropRock(player, now').p}
\* The frame ended the level for a reason: the exit, a dragon that does not
\* sleep, a fireball, or a quit.
LevelEndedForCause ==
  \/ OnExit
  \/ TouchesActiveDragon
  \/ StruckByFireball
  \/ ~running'
\* A frame leaves the bottom of the player at most 50 below the ground; a
\* player whose moves went further down is put on the level of the ground,
\* at rest and grounded; and the level goes on unless it ended for a cause.
FloorCatches ==
  FrameStep =>
    /\ Bottom(player'.rect) <= GROUND_LEVEL + 50
    /\ \A left \in BOOLEAN, right \in BOOLEAN, p \in AfterEvents :
         ( /\ player' = Clamped(PlayerUpdate(p, left, right,
                                             PlatformRects(level_data, world_shift),
                                             LevelWidth(level_data)),
                                LevelWidth(level_data))
           /\ Bottom(BeforeBounds(p, left, right).rect) > GROUND_LEVEL + 50 ) =>
           /\ Bottom(player'.rect) = GROUND_LEVEL
           /\ player'.pos.y = GROUND_LEVEL * Q
           /\ player'.vel.y = 0
           /\ player'.on_ground
    /\ (playing /\ ~LevelEndedForCause) => (playing' /\ state' = "playing" /\ pc' = "run")
\* C31: after every Player.update the bottom of the player's rectangle is
\* at most 50 below the level of the ground; a player that would fall
\* further is put back with its bottom on the level of the ground, its
\* vertical velocity 0 and grounded; and a fall by itself neither ends the
\* level nor defeats the player.
C31_FloorCatches == [][FloorCatches]_vars
\* The floor has just caught the player over the gap: the player is at
\* rest on the level of the ground with no platform under it, and the level
\* goes on.
C31_Witness ==
  /\ pc = "run"
  /\ playing
  /\ state = "playing"
  /\ InTheAir
  /\ Bottom(player.rect) = GROUND_LEVEL
  /\ player.on_ground
  /\ player.vel.y = 0


---------------------------------------------------------------------------
(* The order in which the sprites are updated (lines 1098-1100: the group  *)
(* calls update on one sprite after the other).                            *)

\* The sprites of all_sprites that have an update of their own, named by
\* kind and place, in the order of the model: the player, the dragons, the
\* fireballs, the rocks.
GroupOrder ==
  << <<"player", 0>> >>
    \o [i \in 1..Len(dragons) |-> <<"dragon", i>>]
    \o [k \in 1..Len(fireballs) |-> <<"fireball", k>>]
    \o [k \in 1..Len(dropped_rocks) |-> <<"rock", k>>]
\* The world a round of updates begins with, p being the player the events
\* of the frame have left: `spawned' collects the fireballs added, `dead'
\* the fireballs killed and `landed' the rocks that land in the round.
RoundStart(p) ==
  [player |-> p, dragons |-> dragons, fireballs |-> fireballs, rocks |-> dropped_rocks,
   spawned |-> {}, dead |-> {}, landed |-> {}]
\* An update that also moves the fireballs added earlier in the round, as a
\* group would that calls the sprites added while it runs.
UpdateOneLive(w, e, left, right, ld, ws, t) ==
  LET plats == PlatformRects(ld, ws)
      w1 == [w EXCEPT !.spawned = {<<s[1], FireballMoved(s[2])>> : s \in w.spawned}]
  IN  IF e[1] = "player"
      THEN [w1 EXCEPT !.player = PlayerUpdate(w.player, left, right, plats, LevelWidth(ld))]
      ELSE IF e[1] = "dragon"
      THEN LET u == DragonUpdate(w.dragons[e[2]], e[2], w.player.pos, t)
           IN  [w1 EXCEPT !.dragons[e[2]] = u.d,
                          !.spawned = @ \cup {<<e[2], u.fireballs[k]>> : k \in 1..Len(u.fireballs)}]
      ELSE IF e[1] = "fireball"
      THEN LET f == FireballMoved(w.fireballs[e[2]])
           IN  [w1 EXCEPT !.fireballs[e[2]] = f,
                          !.dead = @ \cup (IF FireballAlive(f, Rect(0, 0, LevelWidth(ld), SCREEN_HEIGHT),
                                                            ObstacleRects(ld, ws))
                                           THEN {} ELSE {e[2]})]
      ELSE LET ru == RockUpdate(w.rocks[e[2]], plats)
           IN  [w1 EXCEPT !.rocks[e[2]] = ru.r,
                          !.landed = @ \cup (IF ru.landed_now THEN {e[2]} ELSE {})]
\* sprite.update() for the sprite e of the group, in the world w as the
\* updates before it have left it: Player.update (lines 585-671),
\* Dragon.update (lines 716-772, which reads self.game.player.pos as it is
\* then), Fireball.update (lines 791-799), DroppedRock.update (871-898).
UpdateOne(w, e, left, right, ld, ws, t) ==
  LET plats == PlatformRects(ld, ws)
  IN  IF e[1] = "player"
      THEN [w EXCEPT !.player = PlayerUpdate(w.player, left, right, plats, LevelWidth(ld))]
      ELSE IF e[1] = "dragon"
      THEN LET u == DragonUpdate(w.dragons[e[2]], e[2], w.player.pos, t)
           IN  [w EXCEPT !.dragons[e[2]] = u.d,
                         !.spawned = @ \cup {<<e[2], u.fireballs[k]>> : k \in 1..Len(u.fireballs)}]
      ELSE IF e[1] = "fireball"
      THEN LET f == FireballMoved(w.fireballs[e[2]])
           IN  [w EXCEPT !.fireballs[e[2]] = f,
                         !.dead = @ \cup (IF FireballAlive(f, Rect(0, 0, LevelWidth(ld), SCREEN_HEIGHT),
                                                           ObstacleRects(ld, ws))
                                          THEN {} ELSE {e[2]})]
      ELSE LET ru == RockUpdate(w.rocks[e[2]], plats)
           IN  [w EXCEPT !.rocks[e[2]] = ru.r,
                         !.landed = @ \cup (IF ru.landed_now THEN {e[2]} ELSE {})]
\* self.all_sprites.update() (line 1100) for a group that holds its sprites
\* in the order `order'.
RECURSIVE UpdateInOrder(_, _, _, _, _, _, _)
UpdateInOrder(w, order, left, right, ld, ws, t) ==
  IF order = <<>> THEN w
  ELSE CHOOSE r \in {UpdateInOrder(w1, rest, left, right, ld, ws, t) :
                       w1 \in {UpdateOne(w, Head(order), left, right, ld, ws, t)},
                       rest \in {Tail(order)}} : TRUE

\* The sequence s begun at its place k + 1, and s read backwards.
Rotated(s, k) == [j \in 1..Len(s) |-> s[((j + k - 1) % Len(s)) + 1]]
Reversed(s) == [j \in 1..Len(s) |-> s[Len(s) + 1 - j]]
\* The places of s that an order may begin at.
Turns(s) == {k \in 0..MaxTurns : k < Len(s)}
\* Orders of a group: s begun at one of these places, read either way.
Shuffles(s) ==
  IF s = <<>> THEN {<<>>}
  ELSE {Rotated(s, k) : k \in Turns(s)}
         \cup {Reversed(r) : r \in {Rotated(s, k) : k \in Turns(s)}}
\* The orders in which the player comes first, and the orders in which it
\* comes anywhere.
PlayerFirstOrders ==
  UNION {{<<g[1]>> \o o : o \in Shuffles(rest)} : g \in {GroupOrder}, rest \in {Tail(GroupOrder)}}
AnyOrders == UNION {Shuffles(g) : g \in {GroupOrder}}
\* The round of updates of the frame, in the order `order', for the keys
\* left and right and the player p.
RoundIn(order, left, right, p) ==
  UpdateInOrder(RoundStart(p), order, left, right, level_data, world_shift, now')
\* The keys and the player of the frame: those from which Player.update
\* makes the player the frame ends with.
KeysOfFrame ==
  {c \in BOOLEAN \X BOOLEAN \X AfterEvents :
     player' = Clamped(PlayerUpdate(c[3], c[1], c[2], PlatformRects(level_data, world_shift),
                                    LevelWidth(level_data)),
                       LevelWidth(level_data))}
\* Every order of the set gives the world that the order of the model
\* gives, so that every two of them give the same world.
SameInAll(orders) ==
  \A c \in KeysOfFrame :
    \E w \in {RoundIn(GroupOrder, c[1], c[2], c[3])} :
      \A o \in orders : RoundIn(o, c[1], c[2], c[3]) = w
OrderFree == FrameStep => SameInAll(AnyOrders)
\* C32 as it is stated: what the update of the sprites of a tick leaves
\* does not depend on the order in which the player, the dragons, the
\* fireballs and the rocks are updated: from the same world, two orders
\* give the same states and positions of the dragons and the same spawned
\* sprites.
C32_AsStated == [][OrderFree]_vars
\* With the player updated first, the order of the other sprites does not
\* matter, and the dragons of the round are those the frame goes on with.
OrderFreeAfterPlayer ==
  FrameStep =>
    /\ KeysOfFrame # {}
    /\ SameInAll(PlayerFirstOrders)
    /\ \A c \in KeysOfFrame :
         \E w \in {RoundIn(GroupOrder, c[1], c[2], c[3])} :
           \A i \in 1..Len(dragons) :
             \E u \in {DragonAfterUpdate(i)} :
               /\ w.dragons[i] = u.d
               /\ \A k \in 1..Len(u.fireballs) : <<i, u.fireballs[k]>> \in w.spawned
\* C32: what the update of the sprites of a tick leaves does not depend on
\* the order in which the dragons, the fireballs and the rocks are updated,
\* as long as the player is updated before them, as the game does: from
\* the same world, two such orders give the same states and positions of
\* the dragons and the same spawned sprites.
C32_OrderFreeAfterPlayer == [][OrderFreeAfterPlayer]_vars
\* A round has just updated a chasing dragon that fired, a fireball that
\* was in flight and a rock that falls, after a player that moves.
C32_Witness ==
  /\ pc = "run"
  /\ player.vel.x # 0
  /\ \E i \in 1..Len(dragons) : dragons[i].state = "chasing" /\ SaidOf("Fireball", i)
  /\ Len(fireballs) >= 2
  /\ \E k \in 1..Len(dropped_rocks) : ~dropped_rocks[k].landed /\ dropped_rocks[k].vel_y > DROPPED_ROCK_GRAVITY


---------------------------------------------------------------------------
(* No way back to sleep (lines 700-772).                                   *)
\* The states of a dragon that is awake.
Awake == {"chasing", "distracted"}
\* The three calls of the class, made on a dragon that is awake: none of
\* them puts it to sleep.
AwakeAfterCalls ==
  \A i \in 1..Len(dragons) :
    dragons[i].state \in Awake =>
      /\ DragonUpdate(dragons[i], i, player.pos, now).d.state \in Awake
      /\ GetDistracted(dragons[i], i, player.pos, now).d.state \in Awake
      /\ WakeUp(dragons[i], i, now).d.state \in Awake
\* A frame of a level, with its updates, its treasure pickups and its
\* landing rocks, leaves awake every dragon that was awake.
StaysAwake ==
  FrameStep =>
    /\ Len(dragons') = Len(dragons)
    /\ \A i \in 1..Len(dragons) :
         dragons[i].state \in Awake => dragons'[i].state \in Awake
\* C33: within one level a dragon never returns to sleeping: a dragon that
\* is chasing or distracted is chasing or distracted after every frame of
\* the level, and after an update, a distraction or a wake_up call made on
\* it in any state the program reaches.
C33_NeverBackToSleep == []AwakeAfterCalls /\ [][StaysAwake]_vars
\* A dragon has just stopped being distracted, and chases again.
C33_Witness ==
  \E i \in 1..Len(dragons) :
    /\ pc = "run"
    /\ SaidOf("Dragon no longer distracted.", i)
    /\ dragons[i].state = "chasing"
    /\ dragons[i].distraction_target = None


---------------------------------------------------------------------------
(* The distraction target (lines 694-698 and 709-740).                     *)
\* The dragon holds a target exactly when it is distracted.
TargetIffDistracted(d) == (d.distraction_target # None) <=> (d.state = "distracted")
\* Every dragon of the level, and what each of the three calls leaves of it.
TargetsMatchStates ==
  \A i \in 1..Len(dragons) :
    /\ TargetIffDistracted(dragons[i])
    /\ TargetIffDistracted(DragonUpdate(dragons[i], i, player.pos, now).d)
    /\ TargetIffDistracted(GetDistracted(dragons[i], i, player.pos, now).d)
    /\ TargetIffDistracted(WakeUp(dragons[i], i, now).d)
\* C34: in every state the program reaches a dragon holds a distraction
\* target if and only if it is distracted: the target is unset while it
\* sleeps or chases, and set while it is distracted.
C34_TargetIffDistracted == []TargetsMatchStates
\* One dragon is distracted and holds a target, while the distraction of
\* another one is over: it chases, and holds none.
C34_Witness ==
  \E i \in 1..Len(dragons), j \in 1..Len(dragons) :
    /\ pc = "run"
    /\ dragons[i].state = "distracted"
    /\ dragons[i].distraction_target # None
    /\ SaidOf("Dragon no longer distracted.", j)
    /\ dragons[j].state = "chasing"
    /\ dragons[j].distraction_target = None


---------------------------------------------------------------------------
(* What a lost frame credits (lines 1194-1222).                            *)
\* The frame leaves the total score and the level index as they were.
NothingCredited ==
  /\ total_score' = total_score
  /\ current_level_index' = current_level_index
CreditOnlyOnCompletion ==
  FrameStep =>
    /\ ~NothingCredited => state' \in {"level_complete", "game_won_all"}
    /\ state' = "game_over_lose" => NothingCredited
\* C35 as it is stated: the total score and the level index change only in
\* a frame that ends in level_complete or game_won_all; a frame that ends in
\* game_over_lose leaves both as they were before it.
C35_AsStated == [][CreditOnlyOnCompletion]_vars


---------------------------------------------------------------------------
(* Fireballs and distraction (lines 709-772).                              *)
\* The calls that begin and end a distraction, made on every dragon of
\* every state reached: get_distracted keeps the fireball timer, and the
\* update of a distracted dragon keeps it and builds no fireball.
DistractionKeepsTimer ==
  \A i \in 1..Len(dragons) :
    LET d == dragons[i]
        u == DragonUpdate(d, i, player.pos, now)
    IN  /\ GetDistracted(d, i, player.pos, now).d.last_fireball = d.last_fireball
        /\ d.state = "distracted" =>
             /\ u.fireballs = <<>>
             /\ u.d.last_fireball = d.last_fireball
\* A frame that a dragon begins distracted: the dragon builds no fireball
\* and keeps its timer, whether the distraction goes on, ends, or is begun
\* again by a rock.  A frame in which a rock distracts a dragon: the timer
\* is what the update, or the wake_up of the frame, has left.
NoFireWhileDistracted ==
  FrameStep =>
    \A i \in 1..Len(dragons) :
      /\ dragons[i].state = "distracted" =>
           /\ TimesIn(out', "Fireball", i) = 0
           /\ dragons'[i].last_fireball = dragons[i].last_fireball
      /\ SaidOfIn(out', "Dragon distracted!", i) =>
           dragons'[i].last_fireball =
             IF SaidOfIn(out', "dragon_roar_sound", i) THEN now'
             ELSE DragonAfterUpdate(i).d.last_fireball
\* C36: a dragon builds no fireball in a frame that it begins distracted,
\* the frame in which the distraction ends included, and neither the
\* beginning nor the end of a distraction changes its fireball timer.
C36_NoFireWhileDistracted == []DistractionKeepsTimer /\ [][NoFireWhileDistracted]_vars
\* The distraction of a dragon has just ended with its fireball long due:
\* it chases, has not fired, and its timer is older than the interval.
C36_Witness ==
  \E i \in 1..Len(dragons) :
    /\ pc = "run"
    /\ SaidOf("Dragon no longer distracted.", i)
    /\ dragons[i].state = "chasing"
    /\ ~SaidOf("Fireball", i)
    /\ now - dragons[i].last_fireball > FireIntervalMs
    /\ dragons[i].pos # player.pos


---------------------------------------------------------------------------
(* The scroll and the points a dragon is lured to (lines 1138-1150).       *)
\* Where a point of the screen lies in the level, whose platforms,
\* obstacles and exit the scroll has shifted by ws.
InLevel(x, ws) == x - ws * Q
\* Dragon i is distracted when the frame begins and when it ends, and no
\* rock gives it a new target.
DistractedThrough(i) ==
  /\ dragons[i].state = "distracted"
  /\ dragons'[i].state = "distracted"
  /\ NotRetriggered(i)
\* The target of a dragon that stays distracted keeps its place in the
\* level, and the landing point of a rock that lands in the frame is the
\* middle of the bottom of the rock when the frame looks for the dragons
\* that hear it, after the scroll.
TargetsFixedInLevel ==
  FrameStep =>
    /\ \A i \in 1..Len(dragons) :
         DistractedThrough(i) =>
           InLevel(dragons'[i].distraction_target[1].x, world_shift')
             = InLevel(dragons[i].distraction_target[1].x, world_shift)
    /\ \A k \in 1..Len(dropped_rocks) :
         LET ru == RockUpdate(dropped_rocks[k], PlatformRects(level_data, world_shift))
         IN  ru.landed_now =>
               ru.r.land_pos[1].x = (CenterX(ru.r.rect) + ScrollOfFrame) * Q
\* C37 as it is stated: while a dragon is distracted its target stays at
\* the same horizontal offset from the platforms, the obstacles and the
\* exit in every frame, scrolled or not, and the landing point of a rock is
\* where the rock is when it is compared with the positions of the dragons.
C37_AsStated == [][TargetsFixedInLevel]_vars


---------------------------------------------------------------------------
(* The first frame of a level (lines 1010-1079).                           *)
\* Game.new has built the level, and no frame of it has been played.
LevelStart == pc = "run" /\ now = 0
\* Dragon i is farther than DRAGON_WAKE_RANGE from the player.
OutOfWakeRange(i) == DistGreater(dragons[i].pos, player.pos, DRAGON_WAKE_RANGE)
StartsQuiet ==
  LevelStart =>
    /\ Len(dragons) = num_selected_dragons
    /\ fireballs = <<>>
    /\ dropped_rocks = <<>>
    /\ \A i \in 1..Len(dragons) :
         dragons[i].state = "sleeping" /\ OutOfWakeRange(i)
FirstFrameSafe ==
  (LevelStart /\ FrameStep) =>
    /\ state' # "game_over_lose"
    /\ \A i \in 1..Len(dragons) : dragons'[i].state = "sleeping"
\* C38: when a level of the catalog has been built, with 1 to 5 dragons,
\* every dragon sleeps, there is no fireball and no rock, and every dragon
\* is farther than DRAGON_WAKE_RANGE from the player's start position; the
\* first frame of the level wakes no dragon and does not defeat the player.
C38_StartsQuiet == []StartsQuiet /\ [][FirstFrameSafe]_vars
\* The first frame of the first level of the catalog has been played with
\* five dragons, one of them in the part of the level that the screen
\* shows: all of them sleep, and the level goes on.
C38_Witness ==
  /\ pc = "run" /\ now = FrameMs
  /\ state = "playing"
  /\ level_data = 0
  /\ Len(dragons) = 5
  /\ \A i \in 1..Len(dragons) : dragons[i].state = "sleeping"
  /\ \E i \in 1..Len(dragons) : dragons[i].rect.x < SCREEN_WIDTH

---------------------------------------------------------------------------
(* Every rock lands (lines 871-898 and 1245-1247).                         *)
\* The updates a rock dropped at rest needs, at most, to fall from the top
\* of the window to GROUND_LEVEL.
FallTicks ==
  CHOOSE n \in 1..100 :
    /\ (DROPPED_ROCK_GRAVITY * n * (n + 1)) \div 2 >= GROUND_LEVEL * Q
    /\ (DROPPED_ROCK_GRAVITY * (n - 1) * n) \div 2 < GROUND_LEVEL * Q
\* The rock stands on GROUND_LEVEL or on the top of a platform.
OnSupport(r) ==
  \/ Bottom(r.rect) = GROUND_LEVEL
  \/ \E k \in 1..Len(PlatformRects(level_data, world_shift)) :
       Bottom(r.rect) = PlatformRects(level_data, world_shift)[k].y
\* A rock of the level has landed on a support, or is above the ground on a
\* fall of fewer than FallTicks updates; none is below the window.
LandedOrFalling ==
  \A k \in 1..Len(dropped_rocks) :
    LET r == dropped_rocks[k]
    IN  /\ r.landed => OnSupport(r) /\ r.land_pos # None /\ r.vel_y = 0
        /\ ~r.landed =>
             /\ Bottom(r.rect) < GROUND_LEVEL
             /\ r.vel_y > 0
             /\ r.vel_y < FallTicks * DROPPED_ROCK_GRAVITY
        /\ r.rect.y <= SCREEN_HEIGHT
\* How many rocks have distracted a dragon in the step.
RocksHeard(o) == Cardinality({k \in 1..Len(o) : o[k][1] = "Dragon distracted!"})
\* The update of a frame lands a falling rock or lets it fall faster, and
\* does not remove it; the rocks that the frame leaves are those it began
\* with and the one dropped in it, less those that distracted a dragon.
FallsUntilLanded ==
  FrameStep =>
    /\ \A k \in 1..Len(dropped_rocks) :
         LET ru == RockUpdate(dropped_rocks[k], PlatformRects(level_data, world_shift))
         IN  /\ ru.alive
             /\ ~dropped_rocks[k].landed =>
                  \/ ru.landed_now /\ ru.r.landed
                  \/ ru.r.pos.y > dropped_rocks[k].pos.y /\ ru.r.vel_y > dropped_rocks[k].vel_y
    /\ Len(dropped_rocks') =
         Len(dropped_rocks)
           + (IF player'.last_rock_drop = now' THEN 1 ELSE 0)
           - RocksHeard(out')
\* C39: every DroppedRock lands: a rock that has not landed is above the
\* ground and falls faster in each frame, for fewer than FallTicks frames,
\* a rock that has landed has its bottom at GROUND_LEVEL or at the top of a
\* platform, and no rock is removed for being below the window.
C39_EveryRockLands == []LandedOrFalling /\ [][FallsUntilLanded]_vars
\* A rock dropped over the gap has landed at GROUND_LEVEL with no platform
\* under it.
C39_Witness ==
  \E k \in 1..Len(dropped_rocks) :
    /\ pc = "run"
    /\ dropped_rocks[k].landed
    /\ Bottom(dropped_rocks[k].rect) = GROUND_LEVEL
    /\ \A j \in 1..Len(PlatformRects(level_data, world_shift)) :
         LET p == PlatformRects(level_data, world_shift)[j]
         IN  p.x + p.w <= dropped_rocks[k].rect.x \/ dropped_rocks[k].rect.x + dropped_rocks[k].rect.w <= p.x

=======================================================================
